---- MODULE Spec2Model ----
(***************************************************************************)
(* Model of src/postprocessing.js: the end-of-turn classifier              *)
(* determineEOT, the formatter timestamp, and the turn segmentation        *)
(* PostProcess.json (json and its fallback jsonScriptFromParagraphs),      *)
(* called once or twice by a caller such as transcribeFiles; and of        *)
(* src/index.js: transcribeFiles, which lists the audio files of a         *)
(* directory, has each transcribed in turn and saves what comes back.      *)
(*                                                                         *)
(* A JavaScript string is a sequence of characters, each character a       *)
(* one-character string; a character outside ASCII is written by its code  *)
(* point ("U+2026").  A JavaScript object is a record, and a property the  *)
(* object does not have is a field the record does not have.               *)
(***************************************************************************)
EXTENDS Integers, Sequences, FiniteSets, TLC

VARIABLES
    pc,        \* position of the modelled call
    text,      \* determineEOT: its argument
    eot,       \* determineEOT: its return value
    given,     \* json: the input object as the caller built it
    data,      \* json: the input object (sorted in place by json)
    segs,      \* json: the sorted segment array (utterances / joinedParagraphs)
    perm,      \* json: perm[i] is the extraction position of segs[i]
    out,       \* json: the returned document's results array
    withTs,    \* json: the includeTimestamps parameter of the call
    threw,     \* json: TRUE when the call raised a TypeError
    passed,    \* json: TRUE when the call passed a second argument
    speakerId, \* json: the speakerId Map that the last call made
    call,      \* the caller: which call this is
    prev,      \* the caller: what the call before this one returned
    time,      \* timestamp: its argument, in ticks
    stamp,     \* timestamp: its return value
    inputDir,  \* the file system: the input directory
    includeTs, \* transcribeFiles: its includeTimestamps parameter
    filePaths, \* transcribeFiles: the audio files listed
    index,     \* transcribeFiles: the place of filePath in filePaths, from 1
    at,        \* transcribeFiles: the statement it is at
    inFlight,  \* the provider: the requests sent and not settled
    attempts,  \* history: the transcribeFile calls made, in order
    outcomes,  \* history: how each of those calls ended
    failed,    \* history: the files whose iteration ended in the catch
    rawJson,   \* saveTranscription: its local rawJson
    postProcessedJson, \* saveTranscription: its local postProcessedJson
    written,   \* the file system: the files written, in order
    jsonCalls, \* history: the PostProcess.json calls made, in order
    returns    \* transcribeFiles: its return value

\* the variables of transcribeFiles
runVars == <<inputDir, includeTs, filePaths, index, at, inFlight, attempts,
             outcomes, failed, rawJson, postProcessedJson, written,
             jsonCalls, returns>>

vars == <<pc, text, eot, given, data, segs, perm, out, withTs, threw,
          passed, speakerId, call, prev, time, stamp, runVars>>

\* the variables of the caller and of timestamp
callerVars == <<call, prev, time, stamp, runVars>>

\* transcribeFiles is not running
NoRun ==
    /\ inputDir = [exists |-> FALSE]
    /\ includeTs = FALSE
    /\ filePaths = <<>>
    /\ index = 0
    /\ at = "not called"
    /\ inFlight = {}
    /\ attempts = <<>>
    /\ outcomes = <<>>
    /\ failed = {}
    /\ rawJson = ""
    /\ postProcessedJson = ""
    /\ written = <<>>
    /\ jsonCalls = <<>>
    /\ returns = "nothing"

(***************************************************************************)
(* Characters and the character classes of the regular expressions.        *)
(***************************************************************************)
Ellipsis == "U+2026"

\* the three characters the source file holds at line 24
MojibakeEllipsis == <<"U+00E2", "U+20AC", "U+00A6">>

\* \s of a JavaScript regular expression, and what String.prototype.trim strips
WhiteSpace == {" ", "\t", "\n", "\r"}

Quotes == {"\"", "'"}

TerminalChars == {".", "!", "?"}

LowerLetters == <<"a","b","c","d","e","f","g","h","i","j","k","l","m",
                  "n","o","p","q","r","s","t","u","v","w","x","y","z">>

UpperLetters == <<"A","B","C","D","E","F","G","H","I","J","K","L","M",
                  "N","O","P","Q","R","S","T","U","V","W","X","Y","Z">>

Digits == {"0","1","2","3","4","5","6","7","8","9"}

Range(s) == {s[i] : i \in DOMAIN s}

\* \w of a JavaScript regular expression
WordChars == Range(LowerLetters) \cup Range(UpperLetters) \cup Digits \cup {"_"}

\* the upper-case letter of each lower-case letter
ToUpperCase ==
    [c \in Range(LowerLetters) |->
        UpperLetters[CHOOSE k \in DOMAIN LowerLetters : LowerLetters[k] = c]]

\* Canonicalize of a case-insensitive regular expression: upper case
Canonicalize(c) == IF c \in DOMAIN ToUpperCase THEN ToUpperCase[c] ELSE c

\* does pattern text pat match s at position i (1-based), ignoring case
MatchesAtIgnoreCase(s, i, pat) ==
    /\ i >= 1
    /\ i + Len(pat) - 1 <= Len(s)
    /\ \A k \in 1..Len(pat) : Canonicalize(s[i + k - 1]) = Canonicalize(pat[k])

\* does pattern text pat match s at position i exactly
MatchesAt(s, i, pat) ==
    /\ i >= 1
    /\ i + Len(pat) - 1 <= Len(s)
    /\ \A k \in 1..Len(pat) : s[i + k - 1] = pat[k]

\* all characters of s from position i on are in class
TailIn(s, i, class) == \A j \in i..Len(s) : s[j] \in class

\* String.prototype.trim
RECURSIVE TrimLeft(_)
TrimLeft(s) ==
    IF s # <<>> /\ Head(s) \in WhiteSpace THEN TrimLeft(Tail(s)) ELSE s

RECURSIVE TrimRight(_)
TrimRight(s) ==
    IF s # <<>> /\ s[Len(s)] \in WhiteSpace
    THEN TrimRight(SubSeq(s, 1, Len(s) - 1))
    ELSE s

Trim(s) == TrimRight(TrimLeft(s))

(***************************************************************************)
(* determineEOT                                                            *)
(***************************************************************************)
continuationPhrases == <<
    <<"u","m">>,
    <<"u","h">>,
    <<"l","i","k","e">>,
    <<"y","o","u"," ","k","n","o","w">>,
    <<"i"," ","m","e","a","n">>,
    <<"s","o">>,
    <<"a","n","d"," ","t","h","e","n">>,
    <<"b","u","t">>,
    <<"o","r">>,
    <<"b","e","c","a","u","s","e">>,
    <<"h","o","w","e","v","e","r">>,
    <<"a","l","t","h","o","u","g","h">>,
    <<"t","h","e","r","e","f","o","r","e">> >>

questionStarters == <<
    <<"w","h","a","t">>,
    <<"w","h","o">>,
    <<"w","h","e","r","e">>,
    <<"w","h","e","n">>,
    <<"w","h","y">>,
    <<"h","o","w">>,
    <<"i","s">>,
    <<"a","r","e">>,
    <<"d","o">>,
    <<"d","o","e","s">>,
    <<"d","i","d">>,
    <<"c","a","n">>,
    <<"c","o","u","l","d">>,
    <<"w","o","u","l","d">>,
    <<"s","h","o","u","l","d">> >>

\* /[.!?][\s"']*$/.test(t)
endsWithTerminalPunctuation(t) ==
    \E i \in 1..Len(t) :
        /\ t[i] \in TerminalChars
        /\ TailIn(t, i + 1, WhiteSpace \cup Quotes)

\* /\.{3}$|<mojibake>$/.test(t)
endsWithEllipsis(t) ==
    \/ MatchesAt(t, Len(t) - 2, <<".", ".", ".">>)
    \/ MatchesAt(t, Len(t) - Len(MojibakeEllipsis) + 1, MojibakeEllipsis)

\* continuationPhrases.some(phrase => new RegExp(`${phrase}[,\\s]*$`, 'i').test(t))
endsWithContinuationPhrase(t) ==
    \E p \in DOMAIN continuationPhrases :
        \E i \in 1..Len(t) :
            /\ MatchesAtIgnoreCase(t, i, continuationPhrases[p])
            /\ TailIn(t, i + Len(continuationPhrases[p]), WhiteSpace \cup {","})

\* questionStarters.some(starter => new RegExp(`^${starter}\\b`, 'i').test(t))
startsWithQuestion(t) ==
    \E q \in DOMAIN questionStarters :
        LET n == Len(questionStarters[q]) IN
        /\ MatchesAtIgnoreCase(t, 1, questionStarters[q])
        /\ (Len(t) = n \/ t[n + 1] \notin WordChars)

\* startsWithQuestion && !text.includes('?')
missingQuestionMark(s) ==
    startsWithQuestion(Trim(s)) /\ ~(\E i \in DOMAIN s : s[i] = "?")

\* the early return of line 16
IsBlank(s) == s = <<>> \/ Len(Trim(s)) = 0

determineEOT_NoEllipsisVeto(s) ==
    IF IsBlank(s) THEN TRUE
    ELSE /\ endsWithTerminalPunctuation(Trim(s))
         /\ ~endsWithContinuationPhrase(Trim(s))
         /\ ~missingQuestionMark(s)

determineEOT_BlankIsOpen(s) ==
    /\ endsWithTerminalPunctuation(Trim(s))
    /\ ~endsWithContinuationPhrase(Trim(s))
    /\ ~missingQuestionMark(s)
    /\ ~endsWithEllipsis(Trim(s))

determineEOT(s) ==
    IF IsBlank(s) THEN TRUE
    ELSE /\ endsWithTerminalPunctuation(Trim(s))
         /\ ~endsWithContinuationPhrase(Trim(s))
         /\ ~missingQuestionMark(s)
         /\ ~endsWithEllipsis(Trim(s))

(***************************************************************************)
(* The classifier on its own: a text is drawn, determineEOT is applied.    *)
(***************************************************************************)
MaxTextLen == 4

Alphabet == {".", "?", "\"", " ", ",", "s", "o", "i", "S", "U+2026"}

Texts == UNION {[1..n -> Alphabet] : n \in 0..MaxTextLen}

NoData == [absent |-> TRUE]

InitEOT ==
    /\ pc = "start"
    /\ text \in Texts
    /\ eot = FALSE
    /\ given = NoData
    /\ data = NoData
    /\ segs = <<>>
    /\ perm = <<>>
    /\ out = <<>>
    /\ withTs = FALSE
    /\ threw = FALSE
    /\ passed = FALSE
    /\ speakerId = <<>>
    /\ call = "first"
    /\ prev = NoData
    /\ time = 0
    /\ stamp = ""
    /\ NoRun

\* line 16: the text is empty or blank, true is returned at once
ClassifyBlank ==
    /\ pc = "start"
    /\ IsBlank(text)
    /\ eot' = determineEOT(text)
    /\ pc' = "blank"
    /\ UNCHANGED <<text, given, data, segs, perm, out, withTs, threw>>
    /\ UNCHANGED <<passed, speakerId, callerVars>>

\* lines 18-90: the four tests and their conjunction
ClassifyRules ==
    /\ pc = "start"
    /\ ~IsBlank(text)
    /\ eot' = determineEOT(text)
    /\ pc' = "classified"
    /\ UNCHANGED <<text, given, data, segs, perm, out, withTs, threw>>
    /\ UNCHANGED <<passed, speakerId, callerVars>>

NextEOT == ClassifyBlank \/ ClassifyRules

SpecEOT == InitEOT /\ [][NextEOT]_vars

(***************************************************************************)
(* Objects.  A property is read with o.f when the object has it; Has is    *)
(* the test "o.f !== undefined".                                           *)
(***************************************************************************)
Has(o, f) == f \in DOMAIN o

\* the value null
Null == [null |-> TRUE]

\* the object {}
EmptyObject == <<>>

\* template literal `${n}` of a number
NumberToString(n) == ToString(n)

(***************************************************************************)
(* An array is a sequence of objects.  A value that the code tests with || *)
(* or Array.isArray and that is no array is written as a sequence of one   *)
(* object that holds its Object.prototype.toString tag: null, an object    *)
(* that is no array, a string that is not empty.                           *)
(***************************************************************************)
NullTag == <<[toStringTag |-> "[object Null]"]>>

ObjectTag == <<[toStringTag |-> "[object Object]"]>>

StringTag == <<[toStringTag |-> "[object String]"]>>

NotArrays == {NullTag, ObjectTag, StringTag}

\* Array.isArray(v)
IsArray(v) == v \notin NotArrays

Falsy_Never(v) == FALSE

\* !v, of an array or a tagged value
Falsy(v) == v = NullTag

\* the own properties that { ...o } copies
OwnProperties(o) == DOMAIN o \ {"null"}

(***************************************************************************)
(* timestamp(seconds): HH:MM:SS.  A time is a whole number of ticks,       *)
(* TicksPerSecond of them in a second, so that a start time can fall       *)
(* between two seconds.                                                    *)
(***************************************************************************)
TicksPerSecond == 2

\* n.toString().padStart(2, '0')
PadStart2(n) == IF n < 10 THEN "0" \o NumberToString(n) ELSE NumberToString(n)

\* Math.floor(x) of a time x in ticks, in seconds
Floor(x) == x \div TicksPerSecond

\* the time of n whole seconds, in ticks
Seconds(n) == n * TicksPerSecond

timestamp_MinutesOfWholeTime(seconds) ==
    LET hours   == seconds \div Seconds(3600)
        minutes == seconds \div Seconds(60)
        secs    == seconds - Seconds(minutes * 60)
    IN  PadStart2(hours) \o ":" \o PadStart2(minutes) \o ":" \o PadStart2(Floor(secs))

timestamp(seconds) ==
    LET hours   == seconds \div Seconds(3600)
        rest    == seconds - Seconds(hours * 3600)
        minutes == rest \div Seconds(60)
        secs    == rest - Seconds(minutes * 60)
    IN  PadStart2(hours) \o ":" \o PadStart2(minutes) \o ":" \o PadStart2(Floor(secs))

(***************************************************************************)
(* Array.prototype.sort((a, b) => a.start - b.start): a stable sort (the   *)
(* language requires it since ECMAScript 2019).  The sort is computed on   *)
(* positions: SortedPositions(xs)[i] is the position in xs of the element  *)
(* that the sort puts at place i.                                          *)
(***************************************************************************)
RECURSIVE InsertPosition_BeforeEqual(_, _, _)
InsertPosition_BeforeEqual(xs, sorted, k) ==
    IF sorted = <<>> THEN <<k>>
    ELSE IF xs[k].start - xs[Head(sorted)].start <= 0
         THEN <<k>> \o sorted
         ELSE <<Head(sorted)>> \o InsertPosition_BeforeEqual(xs, Tail(sorted), k)

RECURSIVE InsertPosition(_, _, _)
InsertPosition(xs, sorted, k) ==
    IF sorted = <<>> THEN <<k>>
    ELSE IF xs[k].start - xs[Head(sorted)].start < 0
         THEN <<k>> \o sorted
         ELSE <<Head(sorted)>> \o InsertPosition(xs, Tail(sorted), k)

RECURSIVE SortPrefix(_, _)
SortPrefix(xs, n) ==
    IF n = 0 THEN <<>> ELSE InsertPosition(xs, SortPrefix(xs, n - 1), n)

SortedPositions_AsGiven(xs) == [i \in DOMAIN xs |-> i]

SortedPositions(xs) == SortPrefix(xs, Len(xs))

Permute(xs, p) == [i \in DOMAIN p |-> xs[p[i]]]

(***************************************************************************)
(* The speakerId Map.  A Map keeps its keys in insertion order and the     *)
(* value stored with a key is the size of the map when the key was added:  *)
(* the map is the sequence of its keys, and the value of keys[i] is i-1.   *)
(***************************************************************************)
\* new Map()
NewMap_KeptFromLastCall == speakerId

NewMap == <<>>

SpeakerKey_LabelOnly(x) ==
    IF Has(x, "speaker") THEN NumberToString(x.speaker) ELSE "undefined"

\* `${x.channel}_${x.speaker}`
SpeakerKey(x) ==
    NumberToString(x.channel) \o "_" \o
    (IF Has(x, "speaker") THEN NumberToString(x.speaker) ELSE "undefined")

MapHas(keys, k) == \E i \in DOMAIN keys : keys[i] = k

MapGet(keys, k) == (CHOOSE i \in DOMAIN keys : keys[i] = k) - 1

\* if (!speakerId.has(key)) speakerId.set(key, speakerId.size)
MapAdd(keys, k) == IF MapHas(keys, k) THEN keys ELSE Append(keys, k)

\* lines 162-167: every paragraph's key is added, labelled or not
RECURSIVE ParagraphSpeakerIds(_, _)
ParagraphSpeakerIds(ps, n) ==
    IF n = 0 THEN NewMap
    ELSE MapAdd(ParagraphSpeakerIds(ps, n - 1), SpeakerKey(ps[n]))

\* lines 240-247: only an utterance with a speaker adds its key
RECURSIVE UtteranceSpeakerIds(_, _)
UtteranceSpeakerIds(us, n) ==
    IF n = 0 THEN NewMap
    ELSE IF Has(us[n], "speaker")
         THEN MapAdd(UtteranceSpeakerIds(us, n - 1), SpeakerKey(us[n]))
         ELSE UtteranceSpeakerIds(us, n - 1)

(***************************************************************************)
(* A speaker is a number of the map or the string 'Unknown'.  The model    *)
(* holds it as the string the template literal makes of it: two numbers    *)
(* are !== exactly when their decimal strings differ, and no number's      *)
(* string is 'Unknown'.                                                    *)
(***************************************************************************)
\* `Speaker ${speaker}`
RoleOf(speaker) == "Speaker " \o speaker

\* Role, Content, EndOfTurn and, when asked for, Timestamp
Result(role, content, endOfTurn, ts, start) ==
    IF ts
    THEN [Role |-> role, Content |-> content, EndOfTurn |-> endOfTurn,
          Timestamp |-> timestamp(start)]
    ELSE [Role |-> role, Content |-> content, EndOfTurn |-> endOfTurn]

(***************************************************************************)
(* jsonScriptFromParagraphs                                                *)
(***************************************************************************)
\* { ...paragraph, channel }
addChannelToParagraph(paragraph, channel) ==
    [f \in OwnProperties(paragraph) \cup {"channel"} |->
        IF f = "channel" THEN channel ELSE paragraph[f]]

ChannelParagraphs_LastAlternative(channel) ==
    IF /\ Has(channel, "alternatives")
       /\ channel.alternatives # <<>>
       /\ Has(channel.alternatives[Len(channel.alternatives)], "paragraphs")
       /\ Has(channel.alternatives[Len(channel.alternatives)].paragraphs, "paragraphs")
    THEN channel.alternatives[Len(channel.alternatives)].paragraphs.paragraphs
    ELSE <<>>

\* channel?.alternatives?.[0]?.paragraphs?.paragraphs || []
ChannelParagraphs(channel) ==
    IF /\ Has(channel, "alternatives")
       /\ channel.alternatives # <<>>
       /\ Has(channel.alternatives[1], "paragraphs")
       /\ Has(channel.alternatives[1].paragraphs, "paragraphs")
    THEN channel.alternatives[1].paragraphs.paragraphs
    ELSE <<>>

\* lines 144-154: the paragraphs of channels 0..n-1, each with its channel index
RECURSIVE JoinedParagraphs(_, _)
JoinedParagraphs(channels, n) ==
    IF n = 0 THEN <<>>
    ELSE LET ps == ChannelParagraphs(channels[n])
         IN  JoinedParagraphs(channels, n - 1) \o
             [k \in DOMAIN ps |-> addChannelToParagraph(ps[k], n - 1)]

\* p.sentences.map((s) => s.text).join(' ')
RECURSIVE JoinSentences(_)
JoinSentences(sentences) ==
    IF sentences = <<>> THEN <<>>
    ELSE IF Len(sentences) = 1 THEN sentences[1].text
    ELSE sentences[1].text \o <<" ">> \o JoinSentences(Tail(sentences))

\* line 134: !data?.results?.channels || !Array.isArray(data.results.channels)
NoChannels(d) ==
    IF Has(d, "results") /\ Has(d.results, "channels")
    THEN ~IsArray(d.results.channels)
    ELSE TRUE

\* line 157: the joined paragraphs in extraction order, before the sort
ExtractedParagraphs(d) ==
    JoinedParagraphs(d.results.channels, Len(d.results.channels))

\* line 175 raises a TypeError on a paragraph without sentences
ParagraphRaises(ps) == \E i \in DOMAIN ps : ~Has(ps[i], "sentences")

ParagraphForced_ByLabel(ps, ids, i, isEndOfTurn) ==
    IF ~isEndOfTurn /\ i < Len(ps)
    THEN SpeakerKey_LabelOnly(ps[i + 1]) # SpeakerKey_LabelOnly(ps[i])
    ELSE FALSE

\* lines 183-192
ParagraphForced(ps, ids, i, isEndOfTurn) ==
    IF ~isEndOfTurn /\ i < Len(ps)
    THEN MapGet(ids, SpeakerKey(ps[i + 1])) # MapGet(ids, SpeakerKey(ps[i]))
    ELSE FALSE

\* lines 170-207, the result made of paragraph i of the sorted array ps
ParagraphResult(ps, ids, i, ts) ==
    LET speaker     == NumberToString(MapGet(ids, SpeakerKey(ps[i])))
        content     == JoinSentences(ps[i].sentences)
        isEndOfTurn == determineEOT(content)
        forced      == ParagraphForced(ps, ids, i, isEndOfTurn)
    IN  Result(RoleOf(speaker), content, isEndOfTurn \/ forced, ts, ps[i].start)

ParagraphResults(ps, ts) ==
    LET ids == ParagraphSpeakerIds(ps, Len(ps))
    IN  [i \in DOMAIN ps |-> ParagraphResult(ps, ids, i, ts)]

(***************************************************************************)
(* json                                                                    *)
(***************************************************************************)
\* line 222: !data?.results
NoResults(d) == ~Has(d, "results")

Utterances_UnlessChannels(d) ==
    IF /\ Has(d.results, "utterances")
       /\ ~Falsy(d.results.utterances)
       /\ ~Has(d.results, "channels")
    THEN d.results.utterances
    ELSE <<>>

\* line 228: data.results.utterances || []
Utterances(d) ==
    IF Has(d.results, "utterances") /\ ~Falsy(d.results.utterances)
    THEN d.results.utterances
    ELSE <<>>

\* line 230: utterances.length === 0; a tagged value has no length 0
NoUtterances(d) == IsArray(Utterances(d)) /\ Len(Utterances(d)) = 0

\* line 236 raises a TypeError when utterances has no sort method or the
\* comparator reads a.start of null; line 241 when it reads u.speaker of null
UtterancesRaise(us) ==
    IF IsArray(us) THEN \E i \in DOMAIN us : Has(us[i], "null") ELSE TRUE

\* lines 252-255 and 268-273
UtteranceSpeaker(ids, u) ==
    IF Has(u, "speaker") THEN NumberToString(MapGet(ids, SpeakerKey(u))) ELSE "Unknown"

Transcript_Trimmed(u) == IF Has(u, "transcript") THEN Trim(u.transcript) ELSE <<>>

\* line 257: u.transcript || ''
Transcript(u) == IF Has(u, "transcript") THEN u.transcript ELSE <<>>

UtteranceForced_AlsoLast(us, ids, i, isEndOfTurn) ==
    IF ~isEndOfTurn
    THEN IF i < Len(us)
         THEN UtteranceSpeaker(ids, us[i + 1]) # UtteranceSpeaker(ids, us[i])
         ELSE TRUE
    ELSE FALSE

UtteranceForced_Never(us, ids, i, isEndOfTurn) == FALSE

\* lines 265-277
UtteranceForced(us, ids, i, isEndOfTurn) ==
    IF ~isEndOfTurn /\ i < Len(us)
    THEN UtteranceSpeaker(ids, us[i + 1]) # UtteranceSpeaker(ids, us[i])
    ELSE FALSE

\* lines 250-292, the result made of utterance i of the sorted array us
UtteranceResult(us, ids, i, ts) ==
    LET speaker     == UtteranceSpeaker(ids, us[i])
        transcript  == Transcript(us[i])
        isEndOfTurn == determineEOT(transcript)
        forced      == UtteranceForced(us, ids, i, isEndOfTurn)
    IN  Result(RoleOf(speaker), transcript, isEndOfTurn \/ forced, ts, us[i].start)

UtteranceResults_LastOfTurnOnly(us, ts) ==
    LET ids  == UtteranceSpeakerIds(us, Len(us))
        all  == [i \in DOMAIN us |-> UtteranceResult(us, ids, i, ts)]
        keep == SelectSeq([i \in DOMAIN us |-> i],
                          LAMBDA i : IF i < Len(us)
                                     THEN all[i + 1].Role # all[i].Role
                                     ELSE TRUE)
    IN  [j \in DOMAIN keep |-> all[keep[j]]]

\* lines 250-294: one result per utterance
UtteranceResults(us, ts) ==
    LET ids == UtteranceSpeakerIds(us, Len(us))
    IN  [i \in DOMAIN us |-> UtteranceResult(us, ids, i, ts)]

\* data with results.utterances replaced: the array is sorted in place
WithUtterances(d, us) ==
    [d EXCEPT !.results = [d.results EXCEPT !.utterances = us]]

\* lines 138-157: the joined paragraphs, sorted by start time
SortedParagraphs(d) ==
    Permute(ExtractedParagraphs(d), SortedPositions(ExtractedParagraphs(d)))

\* line 236: the utterances, sorted by start time
SortedUtterances(d) ==
    Permute(Utterances(d), SortedPositions(Utterances(d)))

\* the results array of the document json(d, ts) returns
jsonResults(d, ts) ==
    IF NoResults(d) THEN <<>>
    ELSE IF NoUtterances(d)
         THEN IF NoChannels(d) THEN <<>>
              ELSE ParagraphResults(SortedParagraphs(d), ts)
         ELSE UtteranceResults(SortedUtterances(d), ts)

(***************************************************************************)
(* The inputs of json: what the transcription provider may return.         *)
(***************************************************************************)
MaxSegs == 2

ChannelIndexes == {0, 1}

SpeakerLabels == {0, 1}

Starts == {0, 1}

\* "so" ends with a continuation phrase, "o." is a finished sentence
Transcripts == {<<"s", "o">>, <<"o", ".">>}

DiarizedUtterances ==
    [channel : ChannelIndexes, start : Starts, speaker : SpeakerLabels,
     transcript : Transcripts]

\* the code reads the channel of an utterance only when it has a speaker
\* (lines 241-242): the utterances without one are all of channel 0
UtteranceObjects ==
    [channel : {0}, start : Starts]
    \cup [channel : ChannelIndexes, start : Starts, speaker : SpeakerLabels]
    \cup [channel : {0}, start : Starts, transcript : Transcripts]
    \cup DiarizedUtterances

SentenceLists ==
    {<<[text |-> <<"s", "o">>]>>,
     <<[text |-> <<"o", ".">>]>>,
     <<[text |-> <<"o", ".">>], [text |-> <<"s", "o">>]>>}

ParagraphObjects ==
    [start : Starts, sentences : SentenceLists]
    \cup [start : Starts, sentences : SentenceLists, speaker : SpeakerLabels]
    \cup [start : {0}]

ChannelOf(ps) == [alternatives |-> <<[paragraphs |-> [paragraphs |-> ps]]>>]

\* channel data that comes along with utterances
ChannelSample ==
    <<ChannelOf(<<[start |-> 0, speaker |-> 1,
                   sentences |-> <<[text |-> <<"o", ".">>]>>]>>)>>

\* null, {} and { results: {} }
InitNoSegments ==
    data \in {Null, EmptyObject, [results |-> EmptyObject]}

\* the utterances that come with channel data: diarized, or bare
UtterancesBesideChannels ==
    DiarizedUtterances \cup [channel : {0}, start : Starts]

\* utterances alone, or utterances with channel data beside them
InitUtterances ==
    \E n \in 0..MaxSegs :
        \/ \E us \in [1..n -> UtteranceObjects] :
             data = [results |-> [utterances |-> us]]
        \/ \E us \in [1..n -> UtterancesBesideChannels] :
             data = [results |-> [utterances |-> us, channels |-> ChannelSample]]

\* no utterances: n paragraphs, in one channel or split over two channels
InitChannels ==
    \/ data = [results |-> [channels |-> <<>>]]
    \/ \E n \in 0..MaxSegs : \E ps \in [1..n -> ParagraphObjects] :
        \/ data = [results |-> [channels |-> <<ChannelOf(ps)>>]]
        \/ \E k \in 0..n :
             data = [results |-> [channels |->
                        <<ChannelOf(SubSeq(ps, 1, k)), ChannelOf(SubSeq(ps, k + 1, n))>>]]

\* a second alternative, which the code does not read
OtherAlternative ==
    [paragraphs |-> [paragraphs |->
        <<[start |-> 0, speaker |-> 0, sentences |-> <<[text |-> <<"s", "o">>]>>]>>]]

\* inputs that are not what the provider documents: results.channels or
\* results.utterances that is no array, a null element, a channel without
\* alternatives or with two
InitMalformed ==
    \/ \E t \in NotArrays :
        \/ data = [results |-> [channels |-> t]]
        \/ data = [results |-> [utterances |-> <<>>, channels |-> t]]
        \/ data = [results |-> [utterances |-> t]]
        \/ data = [results |-> [utterances |-> t, channels |-> ChannelSample]]
    \/ \E u \in DiarizedUtterances :
        \/ data = [results |-> [utterances |-> <<Null>>]]
        \/ data = [results |-> [utterances |-> <<u, Null>>]]
        \/ data = [results |-> [utterances |-> <<Null, u>>]]
    \/ \E c \in {Null, EmptyObject, [alternatives |-> <<>>],
                 [alternatives |-> <<EmptyObject>>]} :
        \/ data = [results |-> [channels |-> <<c>>]]
        \/ data = [results |-> [channels |-> <<c>> \o ChannelSample]]
    \/ \E p \in ParagraphObjects :
        data = [results |-> [channels |->
                   <<[alternatives |-> <<ChannelOf(<<p>>).alternatives[1],
                                         OtherAlternative>>]>>]]

\* what every call starts from
InitCall ==
    /\ pc = "idle"
    /\ given = data
    /\ text = <<>>
    /\ eot = FALSE
    /\ segs = <<>>
    /\ perm = <<>>
    /\ out = <<>>
    /\ withTs = FALSE
    /\ threw = FALSE
    /\ passed = FALSE
    /\ speakerId = <<>>
    /\ call = "first"
    /\ prev = NoData
    /\ time = 0
    /\ stamp = ""
    /\ NoRun

Init ==
    /\ InitNoSegments \/ InitUtterances \/ InitChannels \/ InitMalformed
    /\ InitCall

(***************************************************************************)
(* One call json(data, includeTimestamps), by the path it takes.           *)
(***************************************************************************)
PassedWhen_DefaultIsTrue(includeTimestamps) ==
    IF includeTimestamps THEN {TRUE, FALSE} ELSE {TRUE}

\* line 220, includeTimestamps = false: the parameter is the second argument
\* when the call passes one, and false when it passes none
PassedWhen(includeTimestamps) ==
    IF includeTimestamps THEN {TRUE} ELSE {TRUE, FALSE}

\* lines 222-224
JsonNoResults ==
    /\ pc = "idle"
    /\ NoResults(data)
    /\ \E includeTimestamps \in BOOLEAN :
        /\ withTs' = includeTimestamps
        /\ passed' \in PassedWhen(includeTimestamps)
        /\ out' = <<>>
    /\ pc' = "returned"
    /\ UNCHANGED <<text, eot, given, data, segs, perm, threw>>
    /\ UNCHANGED <<speakerId, callerVars>>

\* lines 230-232 and 134-136: no utterances and no channels
JsonFallbackNoChannels ==
    /\ pc = "idle"
    /\ ~NoResults(data)
    /\ NoUtterances(data)
    /\ NoChannels(data)
    /\ \E includeTimestamps \in BOOLEAN :
        /\ withTs' = includeTimestamps
        /\ passed' \in PassedWhen(includeTimestamps)
        /\ out' = <<>>
    /\ pc' = "returned"
    /\ UNCHANGED <<text, eot, given, data, segs, perm, threw>>
    /\ UNCHANGED <<speakerId, callerVars>>

\* lines 230-232 and 138-209: no utterances, the paragraphs are used
JsonFallback ==
    /\ pc = "idle"
    /\ ~NoResults(data)
    /\ NoUtterances(data)
    /\ ~NoChannels(data)
    /\ \E joinedParagraphs \in {SortedParagraphs(data)} :
           /\ ~ParagraphRaises(joinedParagraphs)
           /\ perm' = SortedPositions(ExtractedParagraphs(data))
           /\ segs' = joinedParagraphs
           /\ speakerId' = ParagraphSpeakerIds(joinedParagraphs, Len(joinedParagraphs))
           /\ \E includeTimestamps \in BOOLEAN :
                /\ withTs' = includeTimestamps
                /\ passed' \in PassedWhen(includeTimestamps)
                /\ out' = ParagraphResults(joinedParagraphs, includeTimestamps)
    /\ pc' = "returned"
    /\ UNCHANGED <<text, eot, given, data, threw>>
    /\ UNCHANGED callerVars

\* line 175: a paragraph has no sentences, the call raises a TypeError
JsonFallbackRaises ==
    /\ pc = "idle"
    /\ ~NoResults(data)
    /\ NoUtterances(data)
    /\ ~NoChannels(data)
    /\ \E joinedParagraphs \in {SortedParagraphs(data)} :
           /\ ParagraphRaises(joinedParagraphs)
           /\ perm' = SortedPositions(ExtractedParagraphs(data))
           /\ segs' = joinedParagraphs
           /\ speakerId' = ParagraphSpeakerIds(joinedParagraphs, Len(joinedParagraphs))
    /\ \E includeTimestamps \in BOOLEAN :
        /\ withTs' = includeTimestamps
        /\ passed' \in PassedWhen(includeTimestamps)
    /\ threw' = TRUE
    /\ pc' = "raised"
    /\ UNCHANGED <<text, eot, given, data, out>>
    /\ UNCHANGED callerVars

\* lines 235-294: the utterances are sorted in place and used
JsonUtterances ==
    /\ pc = "idle"
    /\ ~NoResults(data)
    /\ ~NoUtterances(data)
    /\ ~UtterancesRaise(Utterances(data))
    /\ \E utterances \in {SortedUtterances(data)} :
           /\ perm' = SortedPositions(Utterances(data))
           /\ segs' = utterances
           /\ data' = WithUtterances(data, utterances)
           /\ speakerId' = UtteranceSpeakerIds(utterances, Len(utterances))
           /\ \E includeTimestamps \in BOOLEAN :
                /\ withTs' = includeTimestamps
                /\ passed' \in PassedWhen(includeTimestamps)
                /\ out' = UtteranceResults(utterances, includeTimestamps)
    /\ pc' = "returned"
    /\ UNCHANGED <<text, eot, given, threw>>
    /\ UNCHANGED callerVars

\* lines 236 and 241: utterances is no array or holds null, the call raises
\* a TypeError; a sort that raises leaves the array as it was
JsonUtterancesRaises ==
    /\ pc = "idle"
    /\ ~NoResults(data)
    /\ ~NoUtterances(data)
    /\ UtterancesRaise(Utterances(data))
    /\ speakerId' = IF IsArray(Utterances(data)) /\ Len(Utterances(data)) = 1
                    THEN NewMap
                    ELSE speakerId
    /\ \E includeTimestamps \in BOOLEAN :
        /\ withTs' = includeTimestamps
        /\ passed' \in PassedWhen(includeTimestamps)
    /\ threw' = TRUE
    /\ pc' = "raised"
    /\ UNCHANGED <<text, eot, given, data, segs, perm, out>>
    /\ UNCHANGED callerVars

Next ==
    \/ JsonNoResults
    \/ JsonFallbackNoChannels
    \/ JsonFallback
    \/ JsonFallbackRaises
    \/ JsonUtterances
    \/ JsonUtterancesRaises

Spec == Init /\ [][Next]_vars

(***************************************************************************)
(* Both entry points: determineEOT on a text, or json on an input.         *)
(***************************************************************************)
InitAll == InitEOT \/ Init

NextAll == NextEOT \/ Next

SpecAll == InitAll /\ [][NextAll]_vars

(***************************************************************************)
(* The caller.  json is exported: a caller may pass it the object that an  *)
(* earlier call was given, and transcribeFiles passes it one transcription *)
(* after another, whether the call before returned or raised.              *)
(***************************************************************************)
\* the start times of the calls: 0, one tick, and 01:01:01
CallStarts == {0, 1, Seconds(3661)}

\* " So. " reads as finished once trimmed, "so" does not
CallUtterances ==
    [channel : ChannelIndexes, start : {0, 1}, speaker : SpeakerLabels,
     transcript : {<<" ", "S", "o", ".", " ">>}]
    \cup [channel : ChannelIndexes, start : CallStarts, transcript : {<<"s", "o">>}]

CallParagraphs ==
    [start : {0, 1}, speaker : SpeakerLabels,
     sentences : {<<[text |-> <<"o", ".">>], [text |-> <<"s", "o">>]>>}]
    \cup [start : {Seconds(3661)}, sentences : {<<[text |-> <<"S", "o", ".">>]>>}]

\* what a later call is given: speaker 1 comes first, on either path
OtherInputs ==
    {[results |-> [utterances |->
        <<[channel |-> 1, start |-> 1, speaker |-> 1, transcript |-> <<"s", "o">>],
          [channel |-> 0, start |-> 0, speaker |-> 0, transcript |-> <<"o", ".">>]>>]],
     [results |-> [channels |->
        <<ChannelOf(<<[start |-> 0, speaker |-> 1,
                       sentences |-> <<[text |-> <<"s", "o">>]>>]>>)>>]]}

InitCallUtterances ==
    \E n \in 0..MaxSegs : \E us \in [1..n -> CallUtterances] :
        data = [results |-> [utterances |-> us]]

InitCallChannels ==
    \E n \in 0..MaxSegs : \E ps \in [1..n -> CallParagraphs] :
        \/ data = [results |-> [channels |-> <<ChannelOf(ps)>>]]
        \/ \E k \in 0..n :
             data = [results |-> [channels |->
                        <<ChannelOf(SubSeq(ps, 1, k)), ChannelOf(SubSeq(ps, k + 1, n))>>]]
        \/ data = [results |-> [channels |->
                       <<[alternatives |-> <<ChannelOf(ps).alternatives[1],
                                             OtherAlternative>>]>>]]

InitCalls ==
    /\ InitNoSegments \/ InitMalformed \/ InitCallUtterances \/ InitCallChannels
    /\ InitCall

\* the locals of the call before are gone; the Map it made is garbage
NewCall ==
    /\ pc' = "idle"
    /\ segs' = <<>>
    /\ perm' = <<>>
    /\ out' = <<>>
    /\ withTs' = FALSE
    /\ passed' = FALSE
    /\ threw' = FALSE
    /\ UNCHANGED <<text, eot, speakerId, time, stamp>>

\* lines 298-302: json is called again with the object it was given before
CallAgain ==
    /\ pc \in {"returned", "raised"}
    /\ call = "first"
    /\ call' = "same object"
    /\ prev' = [results |-> out, includeTimestamps |-> withTs, threw |-> threw]
    /\ NewCall
    /\ UNCHANGED <<given, data, runVars>>

\* src/index.js lines 262-270: json is called with the next transcription
CallWithAnother ==
    /\ pc \in {"returned", "raised"}
    /\ call = "first"
    /\ call' = "other object"
    /\ prev' = [results |-> out, includeTimestamps |-> withTs, threw |-> threw]
    /\ data' \in OtherInputs
    /\ given' = data'
    /\ NewCall
    /\ UNCHANGED runVars

NextCalls == Next \/ CallAgain \/ CallWithAnother

SpecCalls == InitCalls /\ [][NextCalls]_vars

(***************************************************************************)
(* timestamp on its own: a time is drawn, timestamp is applied.            *)
(***************************************************************************)
MaxSeconds == 3700

\* the times from 0 to the last tick of second MaxSeconds
Times == 0..(Seconds(MaxSeconds + 1) - 1)

InitTime ==
    /\ pc = "timestamp"
    /\ time \in Times
    /\ stamp = ""
    /\ text = <<>>
    /\ eot = FALSE
    /\ given = NoData
    /\ data = NoData
    /\ segs = <<>>
    /\ perm = <<>>
    /\ out = <<>>
    /\ withTs = FALSE
    /\ threw = FALSE
    /\ passed = FALSE
    /\ speakerId = <<>>
    /\ call = "first"
    /\ prev = NoData
    /\ NoRun

\* lines 99-108
Timestamp ==
    /\ pc = "timestamp"
    /\ stamp' = timestamp(time)
    /\ pc' = "formatted"
    /\ UNCHANGED <<text, eot, given, data, segs, perm, out, withTs, threw>>
    /\ UNCHANGED <<passed, speakerId, call, prev, time, runVars>>

NextTime == Timestamp

SpecTime == InitTime /\ [][NextTime]_vars

(***************************************************************************)
(* Properties of the returned document.                                    *)
(***************************************************************************)
Returned == pc = "returned"

\* the caller gave a non-empty results.utterances
GivenUtterances ==
    /\ Has(given, "results")
    /\ Has(given.results, "utterances")
    /\ IsArray(given.results.utterances)
    /\ given.results.utterances # <<>>

\* the caller gave no utterances, and gave results.channels
GivenChannelsOnly ==
    /\ Has(given, "results")
    /\ ~GivenUtterances
    /\ Has(given.results, "channels")
    /\ IsArray(given.results.channels)

OnUtterancePath == Returned /\ GivenUtterances

OnParagraphPath == Returned /\ GivenChannelsOnly

\* x carries a speaker label
Labeled(x) == Has(x, "speaker")

\* the record at place i did not read as finished and the next Role differs
OpenBeforeOtherRole(i) ==
    /\ i < Len(out)
    /\ ~determineEOT(out[i].Content)
    /\ out[i + 1].Role # out[i].Role

\* C1: in the returned document, every record but the last whose Content
\* determineEOT finds unfinished and whose successor has another Role has
\* EndOfTurn true.
C1_SpeakerChangeForcesEndOfTurn ==
    Returned => \A i \in DOMAIN out : OpenBeforeOtherRole(i) => out[i].EndOfTurn

\* an utterance "so" of one speaker followed by an utterance of another
C1_Witness ==
    /\ OnUtterancePath
    /\ out[1].Content = <<"s", "o">>
    /\ OpenBeforeOtherRole(1)
    /\ out[1].EndOfTurn

\* C2: the last record's EndOfTurn is determineEOT of its Content, on the
\* utterance path and on the paragraph path.
C2_LastRecordNeverForced ==
    (Returned /\ out # <<>>) =>
        out[Len(out)].EndOfTurn = determineEOT(out[Len(out)].Content)

\* a last record that reads as unfinished, after a record of another Role
C2_Witness ==
    /\ Returned
    /\ Len(out) >= 2
    /\ out[Len(out)].Role # out[Len(out) - 1].Role
    /\ ~determineEOT(out[Len(out)].Content)
    /\ ~out[Len(out)].EndOfTurn

(***************************************************************************)
(* Properties of the speaker identities.                                   *)
(***************************************************************************)
\* the (channel, speaker) key of a labelled segment
KeyOf(x) == <<x.channel, x.speaker>>

\* the distinct keys of the labelled segments among the first n of ss, in the
\* order they are first met
RECURSIVE FirstSeenKeys(_, _)
FirstSeenKeys(ss, n) ==
    IF n = 0 THEN <<>>
    ELSE LET before == FirstSeenKeys(ss, n - 1)
         IN  IF Labeled(ss[n]) /\ KeyOf(ss[n]) \notin Range(before)
             THEN Append(before, KeyOf(ss[n]))
             ELSE before

\* the Role of the n-th numbered speaker, n from 0
NumberedRole(n) == "Speaker " \o ToString(n)

UnknownRole == "Speaker Unknown"

\* the place of key k in keys, from 0
RankOf(keys, k) == (CHOOSE i \in DOMAIN keys : keys[i] = k) - 1

\* C6: the numbered Roles of the document are Speaker 0 .. Speaker k-1, k the
\* number of distinct (channel, speaker) keys of the labelled segments, and
\* Speaker n is the n-th distinct key met in the sorted segments.
C6_SpeakerIdsAreDense ==
    Returned =>
        LET keys == FirstSeenKeys(segs, Len(segs))
        IN  /\ {out[i].Role : i \in DOMAIN out} \ {UnknownRole}
                 = {NumberedRole(n) : n \in 0..(Len(keys) - 1)}
            /\ \A i \in DOMAIN segs :
                 Labeled(segs[i]) =>
                     out[i].Role = NumberedRole(RankOf(keys, KeyOf(segs[i])))

\* the same, of the documents made of utterances: there it holds
C6_DenseOnUtterancePath == OnUtterancePath => C6_SpeakerIdsAreDense

\* the Roles that the labelled segments of ss have in document doc
LabeledRoles(ss, doc) ==
    LET places == SelectSeq([i \in DOMAIN ss |-> i], LAMBDA i : Labeled(ss[i]))
    IN  [j \in DOMAIN places |-> doc[places[j]].Role]

\* the Roles of the document made of the labelled segments of ss alone
RolesWithoutUnlabeled(ss) ==
    LET kept == SelectSeq(ss, Labeled)
        doc  == IF GivenUtterances
                THEN UtteranceResults(kept, withTs)
                ELSE ParagraphResults(kept, withTs)
    IN  [j \in DOMAIN kept |-> doc[j].Role]

\* C7: a segment without a speaker label, utterance or paragraph, has the
\* Role "Speaker Unknown" and takes no number: the labelled segments have the
\* Roles they would have without it.
C7_UnlabeledIsSpeakerUnknown ==
    Returned =>
        /\ \A i \in DOMAIN segs : ~Labeled(segs[i]) => out[i].Role = UnknownRole
        /\ LabeledRoles(segs, out) = RolesWithoutUnlabeled(segs)

\* the same, of the documents made of utterances: there it holds
C7_UnknownOnUtterancePath == OnUtterancePath => C7_UnlabeledIsSpeakerUnknown

\* C8: two labelled segments have the same Role exactly when they have the
\* same channel index and the same speaker label.
C8_SameRoleIffSameKey ==
    Returned =>
        \A i, j \in DOMAIN segs :
            (Labeled(segs[i]) /\ Labeled(segs[j])) =>
                ((out[i].Role = out[j].Role) <=> (KeyOf(segs[i]) = KeyOf(segs[j])))

\* one speaker label on two channels, with two Roles
C8_Witness ==
    /\ Returned
    /\ \E i, j \in DOMAIN segs :
        /\ Labeled(segs[i]) /\ Labeled(segs[j])
        /\ segs[i].speaker = segs[j].speaker
        /\ segs[i].channel # segs[j].channel
        /\ out[i].Role # out[j].Role

(***************************************************************************)
(* Properties of the order and of the source of the records.               *)
(***************************************************************************)
\* the segments in the order they are extracted from the input
Extracted ==
    IF GivenUtterances THEN given.results.utterances
    ELSE IF GivenChannelsOnly THEN ExtractedParagraphs(given)
    ELSE <<>>

\* the text of a segment: an utterance's transcript, a paragraph's sentences
ContentOf(x) ==
    IF Has(x, "sentences") THEN JoinSentences(x.sentences)
    ELSE IF Has(x, "transcript") THEN x.transcript
    ELSE <<>>

\* the paragraphs are extracted channel after channel, each channel's in its order
ExtractedByChannel ==
    GivenChannelsOnly =>
        /\ \A i, j \in DOMAIN Extracted :
             i < j => Extracted[i].channel <= Extracted[j].channel
        /\ \A c \in DOMAIN given.results.channels :
             LET ps == ChannelParagraphs(given.results.channels[c])
                 of == SelectSeq(Extracted, LAMBDA x : x.channel = c - 1)
             IN  of = [k \in DOMAIN ps |-> addChannelToParagraph(ps[k], c - 1)]

\* C9: the records are in ascending order of start time, and segments with
\* the same start time keep their extraction order: input order for
\* utterances, channel index then paragraph position for paragraphs.
C9_SortedByStartStable ==
    Returned =>
        /\ Len(perm) = Len(Extracted)
        /\ Range(perm) = DOMAIN Extracted
        /\ segs = Permute(Extracted, perm)
        /\ Len(out) = Len(segs)
        /\ \A i \in DOMAIN segs : out[i].Content = ContentOf(segs[i])
        /\ \A i, j \in DOMAIN segs :
             i < j => \/ segs[i].start < segs[j].start
                      \/ segs[i].start = segs[j].start /\ perm[i] < perm[j]
        /\ ExtractedByChannel

\* two different utterances with one start time, kept in the order given
C9_Witness ==
    /\ OnUtterancePath
    /\ Len(segs) >= 2
    /\ segs[1].start = segs[2].start
    /\ segs[1] # segs[2]
    /\ perm[1] < perm[2]

\* the input with results.channels taken away
WithoutChannels(d) == [results |-> [utterances |-> d.results.utterances]]

\* C10: with a non-empty results.utterances the document has one record per
\* utterance, its Content the utterance's transcript or "" when there is
\* none, and is the document of the same input without results.channels.
C10_UtterancesAreAuthoritative ==
    OnUtterancePath =>
        /\ Len(out) = Len(given.results.utterances)
        /\ Range(perm) = DOMAIN given.results.utterances
        /\ \A i \in DOMAIN out :
             LET u == given.results.utterances[perm[i]]
             IN  out[i].Content = (IF Has(u, "transcript") THEN u.transcript ELSE <<>>)
        /\ out = jsonResults(WithoutChannels(given), withTs)

\* utterances, one of them without a transcript, with channel data beside them
C10_Witness ==
    /\ OnUtterancePath
    /\ Has(given.results, "channels")
    /\ ChannelParagraphs(given.results.channels[1]) # <<>>
    /\ Len(out) >= 2
    /\ \E i \in DOMAIN out : out[i].Content = <<>>
    /\ \E i \in DOMAIN out : out[i].Content # <<>>

(***************************************************************************)
(* Properties of determineEOT.  The four tests are stated here as the      *)
(* design describes them, on the trimmed text, without the regular         *)
(* expressions.                                                            *)
(***************************************************************************)
Classified == pc = "classified"

RECURSIVE DropTrailing(_, _)
DropTrailing(s, class) ==
    IF s # <<>> /\ s[Len(s)] \in class
    THEN DropTrailing(SubSeq(s, 1, Len(s) - 1), class)
    ELSE s

\* the last len characters of s (all of s when it is shorter)
Suffix(s, len) == IF Len(s) <= len THEN s ELSE SubSeq(s, Len(s) - len + 1, Len(s))

\* String.prototype.toLowerCase
toLowerCase(s) ==
    LET LowerCase(c) ==
            IF \E k \in DOMAIN UpperLetters : UpperLetters[k] = c
            THEN LowerLetters[CHOOSE k \in DOMAIN UpperLetters : UpperLetters[k] = c]
            ELSE c
    IN  [i \in DOMAIN s |-> LowerCase(s[i])]

\* the longest prefix of s made of letters, digits and underscores
RECURSIVE LeadingWord(_)
LeadingWord(s) ==
    IF s # <<>> /\ Head(s) \in WordChars
    THEN <<Head(s)>> \o LeadingWord(Tail(s))
    ELSE <<>>

\* ends with . ! or ?, optionally followed by quotes or whitespace
TerminalPunctuationTest(t) ==
    LET r == DropTrailing(t, Quotes \cup WhiteSpace)
    IN  r # <<>> /\ r[Len(r)] \in {".", "!", "?"}

\* ends with three periods or with the ellipsis glyph
EllipsisTest(t) ==
    \/ Suffix(t, 3) = <<".", ".", ".">>
    \/ Suffix(t, 1) = <<Ellipsis>>

\* ends with a continuation phrase, optionally followed by commas or whitespace
ContinuationPhraseTest(t) ==
    LET r == toLowerCase(DropTrailing(t, {","} \cup WhiteSpace))
    IN  \E p \in Range(continuationPhrases) : Len(r) >= Len(p) /\ Suffix(r, Len(p)) = p

\* begins with a question starter as a whole word, and holds no question mark
UnmarkedQuestionTest(t) ==
    /\ toLowerCase(LeadingWord(t)) \in Range(questionStarters)
    /\ "?" \notin Range(t)

\* C3: for a text that is not blank, determineEOT is terminal punctuation and
\* no ellipsis and no continuation phrase and no unmarked question, each test
\* taken on the trimmed text.
C3_DetermineEOTIsTheConjunction ==
    Classified =>
        LET t == Trim(text)
        IN  eot = (/\ TerminalPunctuationTest(t)
                   /\ ~EllipsisTest(t)
                   /\ ~ContinuationPhraseTest(t)
                   /\ ~UnmarkedQuestionTest(t))

\* a text with terminal punctuation that the ellipsis test alone vetoes
C3_Witness ==
    /\ Classified
    /\ TerminalPunctuationTest(Trim(text))
    /\ EllipsisTest(Trim(text))
    /\ ~UnmarkedQuestionTest(Trim(text))
    /\ ~eot

\* text is empty or holds whitespace only
OnlyWhiteSpace(s) == \A i \in DOMAIN s : s[i] \in WhiteSpace

\* C4: determineEOT is true of every empty or whitespace-only text, and an
\* utterance without a transcript gives a record with Content "" and
\* EndOfTurn true, whoever speaks next.
C4_BlankTextIsEndOfTurn ==
    /\ (pc \in {"blank", "classified"} /\ OnlyWhiteSpace(text)) => eot
    /\ OnUtterancePath =>
         \A i \in DOMAIN segs :
            ~Has(segs[i], "transcript") =>
                out[i].Content = <<>> /\ out[i].EndOfTurn

\* an utterance without a transcript followed by one of the same Role
C4_Witness ==
    /\ OnUtterancePath
    /\ \E i \in DOMAIN segs :
        /\ i < Len(segs)
        /\ ~Has(segs[i], "transcript")
        /\ out[i + 1].Role = out[i].Role
        /\ out[i].EndOfTurn

\* text t has terminal punctuation and determineEOT is false of it because of
\* the one veto named: the other two tests do not hold
VetoedBy(t, veto) ==
    LET ellipsis     == endsWithEllipsis(Trim(t))
        continuation == endsWithContinuationPhrase(Trim(t))
        question     == missingQuestionMark(t)
    IN  /\ ~IsBlank(t)
        /\ endsWithTerminalPunctuation(Trim(t))
        /\ ~determineEOT(t)
        /\ ellipsis = (veto = "ellipsis")
        /\ continuation = (veto = "continuation")
        /\ question = (veto = "question")

\* C5: each of the three vetoes (ellipsis, continuation phrase, unmarked
\* question) vetoes some text that has terminal punctuation: there is a text
\* with terminal punctuation of which determineEOT is false because of it.
C5_EachVetoVetoesAPunctuatedText ==
    Classified =>
        \A veto \in {"ellipsis", "continuation", "question"} :
            \E t \in Texts : VetoedBy(t, veto)

\* what the code does instead: a classified text never has both terminal
\* punctuation and a continuation phrase at its end
C5_ContinuationNeverMeetsPunctuation ==
    Classified =>
        ~(/\ endsWithTerminalPunctuation(Trim(text))
          /\ endsWithContinuationPhrase(Trim(text)))

(***************************************************************************)
(* Properties of the paragraph path.                                       *)
(***************************************************************************)
\* the paragraphs of the first alternative of channel c, none when it has none
PrimaryParagraphs(c) ==
    IF Has(c, "alternatives")
    THEN IF c.alternatives # <<>> /\ Has(Head(c.alternatives), "paragraphs")
         THEN Head(c.alternatives).paragraphs.paragraphs
         ELSE <<>>
    ELSE <<>>

\* the paragraphs of the first n channels, channel after channel, each with
\* the position of its channel, from 0
RECURSIVE LocatedParagraphs(_, _)
LocatedParagraphs(channels, n) ==
    IF n = 0 THEN <<>>
    ELSE LET ps == PrimaryParagraphs(channels[n])
         IN  LocatedParagraphs(channels, n - 1) \o
             [k \in DOMAIN ps |-> [position |-> n - 1, paragraph |-> ps[k]]]

\* the texts of the sentences with one space between two of them
RECURSIVE SingleSpaced(_)
SingleSpaced(sentences) ==
    IF sentences = <<>> THEN <<>>
    ELSE LET n == Len(sentences)
         IN  IF n = 1 THEN sentences[1].text
             ELSE SingleSpaced(SubSeq(sentences, 1, n - 1)) \o <<" ">> \o sentences[n].text

\* the speaker label of a paragraph, "undefined" when it has none
LabelOf(p) == IF Has(p, "speaker") THEN ToString(p.speaker) ELSE "undefined"

\* C11: without utterances the document has one record per paragraph of the
\* first alternative of each channel and none of another alternative; a
\* record's Content is its paragraph's sentence texts with single spaces
\* between them; two records have one Role exactly when their paragraphs
\* have one channel position and one speaker label.
C11_OneRecordPerPrimaryParagraph ==
    (Returned /\ GivenChannelsOnly) =>
        LET located == LocatedParagraphs(given.results.channels,
                                         Len(given.results.channels))
        IN  /\ Len(out) = Len(located)
            /\ Len(perm) = Len(located)
            /\ Range(perm) = DOMAIN located
            /\ \A i \in DOMAIN out :
                 out[i].Content = SingleSpaced(located[perm[i]].paragraph.sentences)
            /\ \A i, j \in DOMAIN out :
                 (out[i].Role = out[j].Role) <=>
                    /\ located[perm[i]].position = located[perm[j]].position
                    /\ LabelOf(located[perm[i]].paragraph)
                         = LabelOf(located[perm[j]].paragraph)

\* a channel with two alternatives: the one record is the paragraph of the
\* first, two sentences with a space between them
C11_Witness ==
    /\ Returned
    /\ GivenChannelsOnly
    /\ Len(given.results.channels) = 1
    /\ Has(given.results.channels[1], "alternatives")
    /\ Len(given.results.channels[1].alternatives) = 2
    /\ Len(out) = 1
    /\ out[1].Content = <<"o", ".", " ", "s", "o">>

(***************************************************************************)
(* Properties of the inputs that hold no segment.                          *)
(***************************************************************************)
\* the caller gave results without utterances: none, null, or an empty array
GivenNoUtterances ==
    /\ Has(given, "results")
    /\ Has(given.results, "utterances") => given.results.utterances \in {<<>>, NullTag}

\* the caller gave results without a channels array
GivenNoChannelsArray ==
    /\ Has(given, "results")
    /\ Has(given.results, "channels") => ~IsArray(given.results.channels)

\* null, {}, { results: {} }, { results: { channels: [] } }, or no utterances
\* and no channels array
GivenNoSegments ==
    \/ given \in {Null, EmptyObject, [results |-> EmptyObject],
                  [results |-> [channels |-> <<>>]]}
    \/ GivenNoUtterances /\ GivenNoChannelsArray

C13_NeverRaises == pc # "raised" /\ ~threw

\* what the code does for one of the inputs named: a null channel is skipped
C13_NullChannelIsSkipped ==
    (pc \in {"returned", "raised"} /\ given = [results |-> [channels |-> <<Null>>]])
        => (Returned /\ out = <<>>)

\* C14: a call leaves its input object as it was given, the order of
\* results.utterances included.
C14_InputUnchanged == Returned => data = given

\* what the code does instead: after the first call the input differs from
\* what was given only in the order of results.utterances, and on the
\* paragraph path not at all
C14_OnlyUtterancesReordered ==
    (Returned /\ call = "first") =>
        IF GivenUtterances
        THEN data = WithUtterances(given, Permute(given.results.utterances, perm))
        ELSE data = given

\* the call that ended is the second call with one object, and it was given
\* the includeTimestamps of the first
CalledAgainAlike ==
    /\ call = "same object"
    /\ pc \in {"returned", "raised"}
    /\ withTs = prev.includeTimestamps

\* C15: a second call with the object and the includeTimestamps of the first
\* call ends as the first did, and returns the same results, also when the
\* first call has re-ordered the object.
C15_SameInputSameOutput ==
    CalledAgainAlike => (threw = prev.threw /\ out = prev.results)

\* a second call with an object that the first call has re-ordered
C15_Witness ==
    /\ CalledAgainAlike
    /\ Returned
    /\ data # given
    /\ Len(out) >= 2
    /\ out = prev.results

\* the Roles of document doc that carry a number
NumberedRoles(doc) == {doc[i].Role : i \in DOMAIN doc} \ {UnknownRole}

\* C16: a call that follows a call with another input returns what the call
\* with its own input alone returns, and numbers its speakers from 0: its
\* numbered Roles are Speaker 0, Speaker 1, ... without a gap, and the first
\* of them in the document is Speaker 0.
C16_NoSpeakerStateAcrossCalls ==
    (Returned /\ call = "other object") =>
        /\ out = jsonResults(given, withTs)
        /\ NumberedRoles(out)
             = {NumberedRole(n) : n \in 0..(Cardinality(NumberedRoles(out)) - 1)}
        /\ \A i \in DOMAIN out :
             (\A j \in 1..(i - 1) : out[j].Role = UnknownRole) =>
                 out[i].Role \in {UnknownRole, NumberedRole(0)}

\* the call before numbered two speakers; this call is given another input,
\* whose first speaker it calls Speaker 0 and whose second Speaker 1
C16_Witness ==
    /\ Returned
    /\ call = "other object"
    /\ \E i \in DOMAIN prev.results : prev.results[i].Role = NumberedRole(1)
    /\ Len(out) = 2
    /\ out[1].Role = NumberedRole(0)
    /\ out[2].Role = NumberedRole(1)

(***************************************************************************)
(* Properties of the Timestamp field.                                      *)
(***************************************************************************)
\* the call passed true for includeTimestamps
AskedForTimestamps == passed /\ withTs

\* C17: when the call passes true for includeTimestamps every record has a
\* Timestamp field; when it passes false, or no second argument, no record
\* has one; on the utterance path and on the paragraph path.
C17_TimestampFieldIffAsked ==
    Returned =>
        \A i \in DOMAIN out : Has(out[i], "Timestamp") <=> AskedForTimestamps

\* a call without a second argument, on the paragraph path: two records, no
\* Timestamp field
C17_Witness ==
    /\ Returned
    /\ GivenChannelsOnly
    /\ ~passed
    /\ Len(out) = 2
    /\ \A i \in DOMAIN out : DOMAIN out[i] = {"Role", "Content", "EndOfTurn"}

Formatted == pc = "formatted"

\* n in decimal, with a leading 0 when it has one digit
TwoDigits(n) == IF n \in 0..9 THEN "0" \o ToString(n) ELSE ToString(n)

\* HH:MM:SS of hours h, minutes m and seconds s
HoursMinutesSeconds(h, m, s) ==
    TwoDigits(h) \o ":" \o TwoDigits(m) \o ":" \o TwoDigits(s)

\* the ticks of an hour and of a minute
HourTicks == 3600 * TicksPerSecond

MinuteTicks == 60 * TicksPerSecond

\* C18: for a start time s >= 0, timestamp(s) is HH:MM:SS with hours
\* floor(s / 3600), minutes floor((s mod 3600) / 60) and seconds
\* floor(s mod 60), each with two digits at least; minutes and seconds are
\* in 0..59, and hours * 3600 + minutes * 60 + seconds is floor(s).
C18_TimestampIsHoursMinutesSeconds ==
    Formatted =>
        LET hours   == time \div HourTicks
            minutes == (time % HourTicks) \div MinuteTicks
            secs    == (time % MinuteTicks) \div TicksPerSecond
        IN  /\ stamp = HoursMinutesSeconds(hours, minutes, secs)
            /\ minutes \in 0..59
            /\ secs \in 0..59
            /\ hours * 3600 + minutes * 60 + secs = time \div TicksPerSecond

\* one tick after 1 hour, 1 minute and 1 second
C18_Witness ==
    /\ Formatted
    /\ time = (3600 + 60 + 1) * TicksPerSecond + 1
    /\ stamp = "01:01:01"

\* HH:MM:SS of n whole seconds
StampOfSeconds(n) == HoursMinutesSeconds(n \div 3600, (n % 3600) \div 60, n % 60)

\* the whole seconds in which the segments given start
StartSeconds == {Extracted[k].start \div TicksPerSecond : k \in DOMAIN Extracted}

\* timestamp a is not later than timestamp b: they are the timestamps of two
\* start seconds, the first not after the second
NotLater(a, b) ==
    \E m, n \in StartSeconds : m <= n /\ a = StampOfSeconds(m) /\ b = StampOfSeconds(n)

\* C19: in a document with timestamps, the Timestamp of a record is not later
\* than the Timestamp of any record after it.
C19_TimestampsAscend ==
    (Returned /\ AskedForTimestamps) =>
        \A i, j \in DOMAIN out :
            i < j => NotLater(out[i].Timestamp, out[j].Timestamp)

\* two utterances given latest first: the records are earliest first
C19_Witness ==
    /\ OnUtterancePath
    /\ AskedForTimestamps
    /\ Len(out) = 2
    /\ given.results.utterances[1].start > given.results.utterances[2].start
    /\ out[1].Timestamp = "00:00:00"
    /\ out[2].Timestamp = "01:01:01"

(***************************************************************************)
(* Properties of the Content field.                                        *)
(***************************************************************************)
\* the call was given an object that no call had before
OnFreshInput == Returned /\ call # "same object"

\* C20: the Content of a record is the text of its segment, character for
\* character: leading and trailing whitespace, letter case and punctuation
\* are those of the utterance's transcript (of the paragraph's joined
\* sentences); the trimming is the classifier's alone, and the last record's
\* EndOfTurn is what determineEOT finds of the trimmed text.
C20_ContentIsVerbatim ==
    OnFreshInput =>
        /\ Len(perm) = Len(out)
        /\ \A i \in DOMAIN out : out[i].Content = ContentOf(Extracted[perm[i]])
        /\ out # <<>> =>
             out[Len(out)].EndOfTurn
                = determineEOT(Trim(ContentOf(Extracted[perm[Len(out)]])))

\* the transcript " So. ": the Content keeps the spaces and the capital, and
\* the record is an end of turn as "So." is
C20_Witness ==
    /\ OnFreshInput
    /\ GivenUtterances
    /\ Len(out) = 2
    /\ out[2].Content = <<" ", "S", "o", ".", " ">>
    /\ out[2].Content # Trim(out[2].Content)
    /\ out[2].EndOfTurn

(***************************************************************************)
(* Properties of EndOfTurn over the whole document.                        *)
(***************************************************************************)
\* the record at place i has a successor, and the successor's Role differs
BeforeOtherRole(i) == i < Len(out) /\ out[i + 1].Role # out[i].Role

\* C25: in every returned document a record's EndOfTurn is true exactly when
\* determineEOT of its Content is true or the next record has another Role;
\* a Content that determineEOT finds finished always has EndOfTurn true, and
\* a record but the last with EndOfTurn false is followed by a record of the
\* same Role.
C25_EndOfTurnIffFinishedOrRoleChange ==
    Returned =>
        \A i \in DOMAIN out :
            /\ out[i].EndOfTurn <=>
                   (determineEOT(out[i].Content) \/ BeforeOtherRole(i))
            /\ determineEOT(out[i].Content) => out[i].EndOfTurn
            /\ (i < Len(out) /\ ~out[i].EndOfTurn) => out[i + 1].Role = out[i].Role

\* two paragraphs of one speaker, the first unfinished and left open
C25_Witness ==
    /\ OnParagraphPath
    /\ Len(out) = 2
    /\ ~determineEOT(out[1].Content)
    /\ out[2].Role = out[1].Role
    /\ ~out[1].EndOfTurn

\* C26: two neighbouring segments without a speaker label are both "Speaker
\* Unknown" and the first is not forced to EndOfTurn true, whatever their
\* channels; an unlabeled segment and a labelled neighbour have different
\* Roles, and the first of the two, when unfinished, is forced.
C26_UnlabeledNeighboursAreOneSpeaker ==
    Returned =>
        \A i \in DOMAIN segs :
            i < Len(segs) =>
                /\ (~Labeled(segs[i]) /\ ~Labeled(segs[i + 1])) =>
                       /\ out[i].Role = UnknownRole
                       /\ out[i + 1].Role = UnknownRole
                       /\ out[i].EndOfTurn = determineEOT(out[i].Content)
                /\ (Labeled(segs[i]) # Labeled(segs[i + 1])) =>
                       /\ out[i + 1].Role # out[i].Role
                       /\ ~determineEOT(out[i].Content) => out[i].EndOfTurn

\* the same, of the documents made of utterances: there it holds
C26_UnlabeledUtterancesAreOneSpeaker ==
    OnUtterancePath => C26_UnlabeledNeighboursAreOneSpeaker

\* two unfinished utterances without a label, on two channels, the first
\* left open
C26_UtteranceWitness ==
    /\ OnUtterancePath
    /\ Len(segs) = 2
    /\ ~Labeled(segs[1]) /\ ~Labeled(segs[2])
    /\ segs[1].channel # segs[2].channel
    /\ ~out[1].EndOfTurn

(***************************************************************************)
(* Properties of the number of records.                                    *)
(***************************************************************************)
\* the number of segments the input holds: its utterances, or without them
\* the paragraphs of its channels' first alternatives
SegmentCount ==
    IF GivenUtterances THEN Len(given.results.utterances)
    ELSE IF GivenChannelsOnly
         THEN Len(LocatedParagraphs(given.results.channels,
                                    Len(given.results.channels)))
         ELSE 0

\* how many times x occurs in the sequence s
Occurrences(s, x) == Cardinality({i \in DOMAIN s : s[i] = x})

\* C27: the document has exactly one record per extracted segment: as many
\* records as utterances (as fallback paragraphs), each record holding the
\* text of one segment, every segment used as often as the input holds it;
\* neighbours of one speaker stay two records.
C27_OneRecordPerSegment ==
    Returned =>
        /\ Len(out) = SegmentCount
        /\ Len(segs) = SegmentCount
        /\ \A i \in DOMAIN out : out[i].Content = ContentOf(segs[i])
        /\ \A i \in DOMAIN Extracted :
             Occurrences(segs, Extracted[i]) = Occurrences(Extracted, Extracted[i])

\* two utterances of one speaker, alike in every field, are two records
C27_Witness ==
    /\ OnUtterancePath
    /\ Len(given.results.utterances) = 2
    /\ given.results.utterances[1] = given.results.utterances[2]
    /\ Labeled(given.results.utterances[1])
    /\ Len(out) = 2
    /\ out[1].Role = out[2].Role

(***************************************************************************)
(* src/index.js.  A file name is a sequence of characters; a path is the   *)
(* directory it is joined to and the name.                                 *)
(***************************************************************************)
\* the most entries the input directory holds
MaxFiles == 2

\* a.wav, b.WAV, c.mp3 and the dot file .wav
FileNames ==
    {<<"a", ".", "w", "a", "v">>,
     <<"b", ".", "W", "A", "V">>,
     <<"c", ".", "m", "p", "3">>,
     <<".", "w", "a", "v">>}

\* what fs.readdirSync may return: entries with different names
Listings ==
    UNION {{fs \in [1..n -> FileNames] :
               \A i, j \in 1..n : fs[i] = fs[j] => i = j} : n \in 0..MaxFiles}

\* the input directory: absent, present and unreadable, or listed
Directories ==
    {[exists |-> FALSE], [exists |-> TRUE, readable |-> FALSE]}
    \cup {[exists |-> TRUE, readable |-> TRUE, files |-> fs] : fs \in Listings}

\* the place of the last "." of a name, 0 when it has none
LastDot(file) ==
    IF \E i \in DOMAIN file : file[i] = "."
    THEN CHOOSE i \in DOMAIN file :
            file[i] = "." /\ \A j \in DOMAIN file : file[j] = "." => j <= i
    ELSE 0

\* path.extname: from the last "." on; "" when there is none or when the
\* name begins with it
extname(file) ==
    IF LastDot(file) <= 1 THEN <<>> ELSE SubSeq(file, LastDot(file), Len(file))

\* the default of the extensions parameter, line 170
extensions == <<<<".", "w", "a", "v">>>>

IsAudioFile_CaseSensitive(file) ==
    \E k \in DOMAIN extensions : extensions[k] = extname(file)

\* lines 180-183: extensions.includes(path.extname(file).toLowerCase())
IsAudioFile(file) ==
    \E k \in DOMAIN extensions : extensions[k] = toLowerCase(extname(file))

\* path.join(dir, file) and path.basename of it
PathJoin(dir, file) == [dir |-> dir, base |-> file]

basename(filePath) == filePath.base

\* lines 170-191: no paths when the directory is absent or cannot be read
audioFilePaths(directory) ==
    IF ~directory.exists THEN <<>>
    ELSE IF ~directory.readable THEN <<>>
    ELSE LET audioFiles == SelectSeq(directory.files, IsAudioFile)
         IN  [k \in DOMAIN audioFiles |-> PathJoin("inputDir", audioFiles[k])]

\* lines 223-227: `${fileName}.raw.json` and `${fileName}.post.json` in outputDir
rawPath(filePath) ==
    PathJoin("outputDir",
             basename(filePath) \o <<".", "r", "a", "w", ".", "j", "s", "o", "n">>)

postProcessedJsonPath(filePath) ==
    PathJoin("outputDir",
             basename(filePath) \o <<".", "p", "o", "s", "t", ".", "j", "s", "o", "n">>)

(***************************************************************************)
(* JSON.stringify(value, null, 2), of the values the program gives it: a   *)
(* transcription and a returned document.  The members of an object are    *)
(* printed in the order the provider (the code, for a result) sets them.   *)
(***************************************************************************)
\* the third argument of stringify: two spaces for each level
RECURSIVE Indent(_)
Indent(depth) == IF depth = 0 THEN "" ELSE "  " \o Indent(depth - 1)

RECURSIVE JoinWith(_, _)
JoinWith(items, separator) ==
    IF items = <<>> THEN ""
    ELSE IF Len(items) = 1 THEN items[1]
    ELSE items[1] \o separator \o JoinWith(Tail(items), separator)

\* the items of an array or the members of an object, one on a line; an
\* empty array is [] and an empty object is {}.  The items are printed
\* once and then put together.
Bracketed(open, items, close, depth) ==
    CHOOSE s \in {IF printed = <<>> THEN open \o close
                  ELSE open \o "\n" \o Indent(depth + 1)
                       \o JoinWith(printed, ",\n" \o Indent(depth + 1))
                       \o "\n" \o Indent(depth) \o close :
                     printed \in {items}} : TRUE

JsonArray(items, depth) == Bracketed("[", items, "]", depth)

JsonObject(members, depth) == Bracketed("{", members, "}", depth)

\* a character inside a JSON string
JsonEscape(c) ==
    CASE c = "\"" -> "\\\""
      [] c = "\\" -> "\\\\"
      [] c = "\n" -> "\\n"
      [] c = "\t" -> "\\t"
      [] c = "\r" -> "\\r"
      [] OTHER    -> c

\* a string
JsonText(s) == "\"" \o JoinWith([i \in DOMAIN s |-> JsonEscape(s[i])], "") \o "\""

\* a time of so many ticks, printed as the number of seconds it is, to the
\* thousandth; Decimals(m) are the decimals of m thousandths, 0 < m < 1000,
\* without trailing zeros
JsonSeconds(ticks) ==
    LET whole == ticks \div TicksPerSecond
        milli == ((ticks % TicksPerSecond) * 1000) \div TicksPerSecond
        Decimals(m) ==
            IF m % 100 = 0 THEN ToString(m \div 100)
            ELSE IF m % 10 = 0 THEN PadStart2(m \div 10)
            ELSE (IF m < 10 THEN "00" ELSE IF m < 100 THEN "0" ELSE "")
                 \o ToString(m)
    IN  IF milli = 0 THEN ToString(whole)
        ELSE ToString(whole) \o "." \o Decimals(milli)

\* a value that is no array: null, {} or a string
TagJson(v) ==
    IF v = NullTag THEN "null"
    ELSE IF v = ObjectTag THEN "{}"
    ELSE "\"" \o v[1].toStringTag \o "\""

\* the members of o among keys, in that order, each printed as value gives it
Members(o, keys, value) ==
    LET present == SelectSeq(keys, LAMBDA k : Has(o, k))
    IN  [i \in DOMAIN present |->
            "\"" \o present[i] \o "\": " \o value[present[i]]]

SentenceJson(s, depth) ==
    JsonObject(Members(s, <<"text">>, [k \in {"text"} |-> JsonText(s.text)]), depth)

ParagraphJson(p, depth) ==
    LET keys == <<"sentences", "speaker", "start">>
        value == [k \in DOMAIN p \cap Range(keys) |->
            CASE k = "sentences" ->
                   JsonArray([i \in DOMAIN p.sentences |->
                                 SentenceJson(p.sentences[i], depth + 2)], depth + 1)
              [] k = "speaker" -> ToString(p.speaker)
              [] k = "start"   -> JsonSeconds(p.start)]
    IN  JsonObject(Members(p, keys, value), depth)

\* an alternative: { paragraphs: { paragraphs: [...] } } or {}
AlternativeJson(a, depth) ==
    LET keys == <<"paragraphs">>
        inner == [k \in DOMAIN a.paragraphs \cap Range(keys) |->
            JsonArray([i \in DOMAIN a.paragraphs.paragraphs |->
                          ParagraphJson(a.paragraphs.paragraphs[i], depth + 3)],
                      depth + 2)]
        value == [k \in DOMAIN a \cap Range(keys) |->
            JsonObject(Members(a.paragraphs, keys, inner), depth + 1)]
    IN  JsonObject(Members(a, keys, value), depth)

ChannelJson(c, depth) ==
    LET keys == <<"alternatives">>
        value == [k \in DOMAIN c \cap Range(keys) |->
            JsonArray([i \in DOMAIN c.alternatives |->
                          AlternativeJson(c.alternatives[i], depth + 2)], depth + 1)]
    IN  IF Has(c, "null") THEN "null"
        ELSE JsonObject(Members(c, keys, value), depth)

UtteranceJson(u, depth) ==
    LET keys == <<"start", "channel", "transcript", "speaker">>
        value == [k \in DOMAIN u \cap Range(keys) |->
            CASE k = "start"      -> JsonSeconds(u.start)
              [] k = "channel"    -> ToString(u.channel)
              [] k = "transcript" -> JsonText(u.transcript)
              [] k = "speaker"    -> ToString(u.speaker)]
    IN  IF Has(u, "null") THEN "null"
        ELSE JsonObject(Members(u, keys, value), depth)

\* results: { channels, utterances }, each an array or another value
ResultsJson(r, depth) ==
    LET keys == <<"channels", "utterances">>
        value == [k \in DOMAIN r \cap Range(keys) |->
            CASE k = "channels" ->
                   IF IsArray(r.channels)
                   THEN JsonArray([i \in DOMAIN r.channels |->
                                      ChannelJson(r.channels[i], depth + 2)], depth + 1)
                   ELSE TagJson(r.channels)
              [] k = "utterances" ->
                   IF IsArray(r.utterances)
                   THEN JsonArray([i \in DOMAIN r.utterances |->
                                      UtteranceJson(r.utterances[i], depth + 2)],
                                  depth + 1)
                   ELSE TagJson(r.utterances)]
    IN  JsonObject(Members(r, keys, value), depth)

\* what the provider returned: null, or an object with or without results
TranscriptionJson(d) ==
    LET keys == <<"results">>
        value == [k \in DOMAIN d \cap Range(keys) |-> ResultsJson(d.results, 1)]
    IN  IF Has(d, "null") THEN "null"
        ELSE JsonObject(Members(d, keys, value), 0)

\* a result of json: Role, Content, EndOfTurn and Timestamp when it has one
RecordJson(r, depth) ==
    LET keys == <<"Role", "Content", "EndOfTurn", "Timestamp">>
        value == [k \in DOMAIN r \cap Range(keys) |->
            CASE k = "Role"      -> "\"" \o r.Role \o "\""
              [] k = "Content"   -> JsonText(r.Content)
              [] k = "EndOfTurn" -> IF r.EndOfTurn THEN "true" ELSE "false"
              [] k = "Timestamp" -> "\"" \o r.Timestamp \o "\""]
    IN  JsonObject(Members(r, keys, value), depth)

\* the document { results } that json returns
DocumentJson(results) ==
    LET keys == <<"results">>
        value == [k \in Range(keys) |->
            JsonArray([i \in DOMAIN results |-> RecordJson(results[i], 2)], 1)]
    IN  JsonObject(Members([results |-> results], keys, value), 0)

\* lines 210-212, of a value of the kind named
jsonString(javascriptValue, kind) ==
    IF kind = "document" THEN DocumentJson(javascriptValue)
    ELSE TranscriptionJson(javascriptValue)

(***************************************************************************)
(* transcribeFiles, transcribeFile and saveTranscription.  The provider    *)
(* settles a request when it will; the program runs on one thread, and     *)
(* every step below is the statement the variable at names.                *)
(***************************************************************************)
\* what the provider may return as result: {} and { results: {} }; two
\* utterances, the later first; utterances that is no array; paragraphs
\* alone; a paragraph without sentences
Transcriptions ==
    {EmptyObject,
     [results |-> EmptyObject],
     [results |-> [utterances |->
        <<[start |-> 1, channel |-> 0, transcript |-> <<"s", "o">>, speaker |-> 0],
          [start |-> 0, channel |-> 0, transcript |-> <<"o", ".">>]>>]],
     [results |-> [utterances |-> ObjectTag]],
     [results |-> [channels |->
        <<ChannelOf(<<[start |-> 0, speaker |-> 0,
                       sentences |-> <<[text |-> <<"s", "o">>]>>]>>)>>]],
     [results |-> [channels |-> <<ChannelOf(<<[start |-> 0]>>)>>]]}

\* what deepgram.listen.prerecorded.transcribeFile resolves with: a result
\* and no error, or an error and a null result
Responses ==
    {[result |-> r, error |-> "null"] : r \in Transcriptions}
    \cup {[result |-> Null, error |-> "DeepgramError"]}

IsError_Never(error) == FALSE

\* line 202: if (error)
IsError(error) == error # "null"

Await_NotAwaited(i) == [at |-> "for", index |-> i + 1]

\* line 265: await, the loop goes on when the request has settled
Await(i) == [at |-> "await", index |-> i]

Catch_Rethrows(i) == [at |-> "rejected", index |-> i]

Catch_RetriesOnce(i) ==
    IF Cardinality({k \in DOMAIN attempts : attempts[k] = i}) < 2
    THEN [at |-> "for", index |-> i]
    ELSE [at |-> "for", index |-> i + 1]

\* lines 267-270: the error is logged and the loop goes to the next file
Catch(i) == [at |-> "for", index |-> i + 1]

saveTranscription_WritesRawFirst ==
    <<"rawJson", "writeRaw", "postProcessedJson", "writePost">>

saveTranscription_SerializesLast ==
    <<"postProcessedJson", "rawJson", "writeRaw", "writePost">>

\* lines 229-235: the statements of saveTranscription, in their order
saveTranscription ==
    <<"rawJson", "postProcessedJson", "writeRaw", "writePost">>

\* the statement after statement s; after the last one saveTranscription
\* returns and the loop goes to the next file
Then(s) ==
    LET k == CHOOSE i \in DOMAIN saveTranscription : saveTranscription[i] = s
    IN  IF k < Len(saveTranscription)
        THEN [at |-> saveTranscription[k + 1], index |-> index]
        ELSE [at |-> "for", index |-> index + 1]

Goto(place) == at' = place.at /\ index' = place.index

\* the variables of json and of the other functions of postprocessing.js
jsonVars == <<pc, text, eot, given, data, segs, perm, out, withTs, threw,
              passed, speakerId, call, prev, time, stamp>>

\* the call transcribeFiles(inputDir, outputDir, options, includeTimestamps)
InitFiles ==
    /\ inputDir \in Directories
    /\ includeTs \in BOOLEAN
    /\ filePaths = <<>>
    /\ index = 0
    /\ at = "transcribeFiles"
    /\ inFlight = {}
    /\ attempts = <<>>
    /\ outcomes = <<>>
    /\ failed = {}
    /\ rawJson = ""
    /\ postProcessedJson = ""
    /\ written = <<>>
    /\ jsonCalls = <<>>
    /\ returns = "nothing"
    /\ pc = "not called"
    /\ text = <<>>
    /\ eot = FALSE
    /\ given = NoData
    /\ data = NoData
    /\ segs = <<>>
    /\ perm = <<>>
    /\ out = <<>>
    /\ withTs = FALSE
    /\ threw = FALSE
    /\ passed = FALSE
    /\ speakerId = <<>>
    /\ call = "first"
    /\ prev = NoData
    /\ time = 0
    /\ stamp = ""

\* lines 250-255: no audio file, false is returned
NoAudioFiles ==
    /\ at = "transcribeFiles"
    /\ Len(audioFilePaths(inputDir)) = 0
    /\ filePaths' = audioFilePaths(inputDir)
    /\ returns' = "false"
    /\ at' = "returned"
    /\ UNCHANGED <<inputDir, includeTs, index, inFlight, attempts, outcomes,
                   failed, rawJson, postProcessedJson, written, jsonCalls>>
    /\ UNCHANGED jsonVars

\* lines 250-263: the audio files are listed and the loop begins
AudioFilesFound ==
    /\ at = "transcribeFiles"
    /\ Len(audioFilePaths(inputDir)) # 0
    /\ filePaths' = audioFilePaths(inputDir)
    /\ index' = 1
    /\ at' = "for"
    /\ UNCHANGED <<inputDir, includeTs, inFlight, attempts, outcomes, failed,
                   rawJson, postProcessedJson, written, jsonCalls, returns>>
    /\ UNCHANGED jsonVars

\* lines 263-265 and 193-200: the next file is sent to the provider
TranscribeFileCalled ==
    /\ at = "for"
    /\ index <= Len(filePaths)
    /\ inFlight' = inFlight \cup {index}
    /\ attempts' = Append(attempts, index)
    /\ Goto(Await(index))
    /\ UNCHANGED <<inputDir, includeTs, filePaths, outcomes, failed, rawJson,
                   postProcessedJson, written, jsonCalls, returns>>
    /\ UNCHANGED jsonVars

\* lines 197-207: the request resolves without an error, transcribeFile
\* returns the result and saveTranscription is called with it
ResolvesWithResult ==
    /\ at = "await"
    /\ index \in inFlight
    /\ \E response \in Responses :
        /\ ~IsError(response.error)
        /\ data' = response.result
        /\ given' = response.result
        /\ outcomes' = Append(outcomes, IF response.error = "null"
                                        THEN "result" ELSE "error")
    /\ inFlight' = inFlight \ {index}
    /\ at' = saveTranscription[1]
    /\ UNCHANGED <<inputDir, includeTs, filePaths, index, attempts, failed,
                   rawJson, postProcessedJson, written, jsonCalls, returns>>
    /\ UNCHANGED <<pc, text, eot, segs, perm, out, withTs, threw, passed,
                   speakerId, call, prev, time, stamp>>

\* lines 202-205 and 267-270: the request resolves with an error, which
\* transcribeFile throws and the loop catches
ResolvesWithError ==
    /\ at = "await"
    /\ index \in inFlight
    /\ \E response \in Responses : IsError(response.error)
    /\ outcomes' = Append(outcomes, "error")
    /\ inFlight' = inFlight \ {index}
    /\ failed' = failed \cup {index}
    /\ Goto(Catch(index))
    /\ UNCHANGED <<inputDir, includeTs, filePaths, attempts, rawJson,
                   postProcessedJson, written, jsonCalls, returns>>
    /\ UNCHANGED jsonVars

\* lines 197 and 267-270: the request rejects, and the loop catches
Rejects ==
    /\ at = "await"
    /\ index \in inFlight
    /\ outcomes' = Append(outcomes, "rejected")
    /\ inFlight' = inFlight \ {index}
    /\ failed' = failed \cup {index}
    /\ Goto(Catch(index))
    /\ UNCHANGED <<inputDir, includeTs, filePaths, attempts, rawJson,
                   postProcessedJson, written, jsonCalls, returns>>
    /\ UNCHANGED jsonVars

\* line 229: rawJson = jsonString(transcription)
SerializeRaw ==
    /\ at = "rawJson"
    /\ rawJson' = jsonString(data, "transcription")
    /\ Goto(Then("rawJson"))
    /\ UNCHANGED <<inputDir, includeTs, filePaths, inFlight, attempts, outcomes,
                   failed, postProcessedJson, written, jsonCalls, returns>>
    /\ UNCHANGED jsonVars

\* line 231: PostProcess.json(transcription, includeTimestamps) is called
CallJson ==
    /\ at = "postProcessedJson"
    /\ NewCall
    /\ jsonCalls' = Append(jsonCalls, index)
    /\ at' = "json"
    /\ UNCHANGED <<inputDir, includeTs, filePaths, index, inFlight, attempts,
                   outcomes, failed, rawJson, postProcessedJson, written, returns>>
    /\ UNCHANGED <<given, data, call, prev>>

\* src/postprocessing.js lines 220-295: json runs, with the flag it was given
RunJson ==
    /\ at = "json"
    /\ Next
    /\ withTs' = includeTs
    /\ passed'

\* lines 230-232: json returned, its document is serialized
JsonReturns ==
    /\ at = "json"
    /\ pc = "returned"
    /\ postProcessedJson' = jsonString(out, "document")
    /\ pc' = "not called"
    /\ Goto(Then("postProcessedJson"))
    /\ UNCHANGED <<inputDir, includeTs, filePaths, inFlight, attempts, outcomes,
                   failed, rawJson, written, jsonCalls, returns>>
    /\ UNCHANGED <<text, eot, given, data, segs, perm, out, withTs, threw,
                   passed, speakerId, call, prev, time, stamp>>

\* lines 238-241 and 267-270: json raised; saveTranscription logs and throws
\* again, and the loop catches
JsonRaises ==
    /\ at = "json"
    /\ pc = "raised"
    /\ pc' = "not called"
    /\ failed' = failed \cup {index}
    /\ Goto(Catch(index))
    /\ UNCHANGED <<inputDir, includeTs, filePaths, inFlight, attempts, outcomes,
                   rawJson, postProcessedJson, written, jsonCalls, returns>>
    /\ UNCHANGED <<text, eot, given, data, segs, perm, out, withTs, threw,
                   passed, speakerId, call, prev, time, stamp>>

\* line 234: fs.writeFileSync(rawPath, rawJson)
WriteRaw ==
    /\ at = "writeRaw"
    /\ written' = Append(written, [path    |-> rawPath(filePaths[index]),
                                   content |-> rawJson])
    /\ Goto(Then("writeRaw"))
    /\ UNCHANGED <<inputDir, includeTs, filePaths, inFlight, attempts, outcomes,
                   failed, rawJson, postProcessedJson, jsonCalls, returns>>
    /\ UNCHANGED jsonVars

\* line 235: fs.writeFileSync(postProcessedJsonPath, postProcessedJson)
WritePost ==
    /\ at = "writePost"
    /\ written' = Append(written, [path    |-> postProcessedJsonPath(filePaths[index]),
                                   content |-> postProcessedJson])
    /\ Goto(Then("writePost"))
    /\ UNCHANGED <<inputDir, includeTs, filePaths, inFlight, attempts, outcomes,
                   failed, rawJson, postProcessedJson, jsonCalls, returns>>
    /\ UNCHANGED jsonVars

\* lines 234-235, 238-241 and 267-270: writeFileSync raises, nothing is
\* written; saveTranscription logs and throws again, and the loop catches
WriteFails ==
    /\ at \in {"writeRaw", "writePost"}
    /\ failed' = failed \cup {index}
    /\ Goto(Catch(index))
    /\ UNCHANGED <<inputDir, includeTs, filePaths, inFlight, attempts, outcomes,
                   rawJson, postProcessedJson, written, jsonCalls, returns>>
    /\ UNCHANGED jsonVars

\* lines 271-274: the loop is over, true is returned
AllFilesProcessed ==
    /\ at = "for"
    /\ index > Len(filePaths)
    /\ returns' = "true"
    /\ at' = "returned"
    /\ UNCHANGED <<inputDir, includeTs, filePaths, index, inFlight, attempts,
                   outcomes, failed, rawJson, postProcessedJson, written,
                   jsonCalls>>
    /\ UNCHANGED jsonVars

NextFiles ==
    \/ NoAudioFiles
    \/ AudioFilesFound
    \/ TranscribeFileCalled
    \/ ResolvesWithResult
    \/ ResolvesWithError
    \/ Rejects
    \/ SerializeRaw
    \/ CallJson
    \/ RunJson
    \/ JsonReturns
    \/ JsonRaises
    \/ WriteRaw
    \/ WritePost
    \/ WriteFails
    \/ AllFilesProcessed

SpecFiles == InitFiles /\ [][NextFiles]_vars

(***************************************************************************)
(* Properties of transcribeFiles.                                          *)
(***************************************************************************)
\* transcribeFiles has returned
RunReturned == at = "returned"

\* file i of the list was sent to the provider
Attempted(i) == \E k \in DOMAIN attempts : attempts[k] = i

\* the files written for file i of the list
WrittenFor(i) ==
    SelectSeq(written, LAMBDA w : w.path \in {rawPath(filePaths[i]),
                                              postProcessedJsonPath(filePaths[i])})

\* the transcription of file i came back and json raised on it
FailedInJson(i) ==
    /\ i \in failed
    /\ \E k \in DOMAIN attempts : attempts[k] = i /\ outcomes[k] = "result"
    /\ WrittenFor(i) = <<>>

\* C21: a failure of one file, in the transcription, in json or in a write,
\* is caught inside the loop: transcribeFiles never ends by the error, the
\* loop has moved past every failed file, and when it returns true every
\* file of the list was attempted.
C21_FailureDoesNotStopTheRun ==
    /\ at # "rejected"
    /\ \A i \in failed : index > i
    /\ returns = "true" => \A i \in DOMAIN filePaths : Attempted(i)

\* json raised on the first file, and the second was transcribed and saved
C21_Witness ==
    /\ RunReturned
    /\ Len(filePaths) = 2
    /\ FailedInJson(1)
    /\ Attempted(2)
    /\ Len(WrittenFor(2)) = 2

\* how many times json was called for file i of the list
JsonCallsFor(i) == Cardinality({k \in DOMAIN jsonCalls : jsonCalls[k] = i})

\* how the transcribeFile call of file i ended; "pending" before it has
OutcomeOf(i) ==
    IF \E k \in DOMAIN outcomes : attempts[k] = i
    THEN outcomes[CHOOSE k \in DOMAIN outcomes : attempts[k] = i]
    ELSE "pending"

\* C22: json is called at most once for a file, and only for a file whose
\* transcribeFile call has returned a result; a file whose transcription
\* failed is never given to json and has no file written; when the run
\* returns, json was called exactly once for every result.
C22_JsonOncePerTranscription ==
    \A i \in DOMAIN filePaths :
        /\ JsonCallsFor(i) <= 1
        /\ JsonCallsFor(i) = 1 => OutcomeOf(i) = "result"
        /\ OutcomeOf(i) \in {"error", "rejected"} =>
               JsonCallsFor(i) = 0 /\ WrittenFor(i) = <<>>
        /\ (RunReturned /\ OutcomeOf(i) = "result") => JsonCallsFor(i) = 1

\* the first transcription failed with the provider's error, the second
\* came back: json was called for the second alone
C22_Witness ==
    /\ RunReturned
    /\ Len(filePaths) = 2
    /\ OutcomeOf(1) = "error"
    /\ OutcomeOf(2) = "result"
    /\ jsonCalls = <<2>>
    /\ WrittenFor(1) = <<>>
    /\ Len(WrittenFor(2)) = 2

\* the name ends in .wav, in any letter case, after at least one character
EndsInWav(name) ==
    /\ Len(name) > 4
    /\ toLowerCase(SubSeq(name, Len(name) - 3, Len(name))) = <<".", "w", "a", "v">>

\* the input directory can be listed and holds an audio file
AudioFileFound ==
    IF inputDir.exists
    THEN IF inputDir.readable
         THEN \E k \in DOMAIN inputDir.files : EndsInWav(inputDir.files[k])
         ELSE FALSE
    ELSE FALSE

\* C23: transcribeFiles returns false exactly when no audio file was found
\* in the input directory, and then it has made no transcription call;
\* otherwise it returns true, after every file of the list was attempted
\* and its attempt has ended, whether the files failed or not.
C23_FalseIffNoAudioFile ==
    /\ RunReturned <=> returns \in {"true", "false"}
    /\ RunReturned =>
        /\ returns = "false" <=> ~AudioFileFound
        /\ returns = "false" =>
               attempts = <<>> /\ jsonCalls = <<>> /\ written = <<>>
        /\ returns = "true" =>
               \A i \in DOMAIN filePaths :
                   Attempted(i) /\ OutcomeOf(i) # "pending"

\* two audio files, both failed, and true is returned
C23_Witness ==
    /\ RunReturned
    /\ Len(filePaths) = 2
    /\ failed = {1, 2}
    /\ written = <<>>
    /\ returns = "true"

\* a directory that holds files, none of them audio: false is returned
C23_WitnessFalse ==
    /\ RunReturned
    /\ inputDir.exists
    /\ inputDir.readable
    /\ Len(inputDir.files) = 2
    /\ returns = "false"

\* the iteration of file i is over: it was saved, or it failed
IterationOver(i) == i \in failed \/ Len(WrittenFor(i)) = 2

\* C24: at most one request is in flight; while one is, nothing is being
\* saved; and when the request of a file is sent, the file before it was
\* transcribed and saved, or has failed.
C24_OneRequestAtATime ==
    /\ Cardinality(inFlight) <= 1
    /\ inFlight # {} => at = "await" /\ pc # "idle"
    /\ \A k \in DOMAIN attempts :
         k > 1 => /\ attempts[k] = attempts[k - 1] + 1
                  /\ OutcomeOf(attempts[k - 1]) # "pending"
                  /\ IterationOver(attempts[k - 1])

\* the second request is in flight, the first file's two files are written
C24_Witness ==
    /\ inFlight = {2}
    /\ Len(WrittenFor(1)) = 2
    /\ at = "await"

(***************************************************************************)
(* Properties of saveTranscription.                                        *)
(***************************************************************************)
\* the file json was last called for
LastJsonFile == jsonCalls[Len(jsonCalls)]

\* C28: what is written for an audio file is nothing, the .raw.json file
\* alone, or the .raw.json file and then the .post.json file; a file is
\* written only when json has been called for the audio file and has
\* returned, so when json raises nothing is written for it.
C28_BothComputedBeforeAnyWrite ==
    \A i \in DOMAIN filePaths :
        /\ Len(WrittenFor(i)) <= 2
        /\ Len(WrittenFor(i)) >= 1 => WrittenFor(i)[1].path = rawPath(filePaths[i])
        /\ Len(WrittenFor(i)) = 2 =>
               WrittenFor(i)[2].path = postProcessedJsonPath(filePaths[i])
        /\ WrittenFor(i) # <<>> =>
               JsonCallsFor(i) = 1 /\ ~(i = LastJsonFile /\ pc \in {"idle", "raised"})
        /\ (jsonCalls # <<>> /\ threw) => WrittenFor(LastJsonFile) = <<>>

\* json raised on the second file, which has no file; the first has both
C28_Witness ==
    /\ RunReturned
    /\ Len(filePaths) = 2
    /\ Len(WrittenFor(1)) = 2
    /\ threw
    /\ LastJsonFile = 2
    /\ WrittenFor(2) = <<>>

\* the write of the .post.json file failed: the .raw.json file is there alone
C28_WitnessRawAlone ==
    /\ RunReturned
    /\ \E i \in failed : Len(WrittenFor(i)) = 1

\* the file written last
LastWritten == written[Len(written)]

\* the .raw.json file of the file the loop is at has just been written
RawJustWritten ==
    /\ written # <<>>
    /\ index \in DOMAIN filePaths
    /\ LastWritten.path = rawPath(filePaths[index])

\* C29: the .raw.json file holds the serialization of the transcription as
\* the provider returned it, not of the object as json has left it.
C29_RawFileIsAsReturned ==
    RawJustWritten =>
        /\ LastWritten.content = jsonString(given, "transcription")
        /\ LastWritten.content = rawJson

\* json has put the two utterances in order, and the raw file holds them in
\* the order the provider gave
C29_Witness ==
    /\ RawJustWritten
    /\ at = "writePost"
    /\ data # given
    /\ LastWritten.content = jsonString(given, "transcription")
    /\ LastWritten.content # jsonString(data, "transcription")

(***************************************************************************)
(* Termination of transcribeFiles.  The event loop runs a continuation     *)
(* that is ready, and the provider settles every request it was sent.      *)
(***************************************************************************)
\* the provider settles the request in flight
Settles == ResolvesWithResult \/ ResolvesWithError \/ Rejects

\* every request is settled, and the program takes its next step
SpecFilesFair ==
    /\ SpecFiles
    /\ WF_vars(Settles)
    /\ WF_vars(\/ NoAudioFiles
               \/ AudioFilesFound
               \/ TranscribeFileCalled
               \/ SerializeRaw
               \/ CallJson
               \/ RunJson
               \/ JsonReturns
               \/ JsonRaises
               \/ WriteRaw
               \/ WritePost
               \/ WriteFails
               \/ AllFilesProcessed)

\* the files attempted so far are the first files of the list, each once
InListingOrder == \A k \in DOMAIN attempts : attempts[k] = k

\* C30: when every request settles, transcribeFiles returns in the end, and
\* it has then attempted every listed file; the attempts are made in the
\* order of the list, one for each file, a failed file not being tried again.
C30_RunEndsAfterEachFileOnce ==
    /\ [](InListingOrder /\ Len(attempts) <= Len(filePaths))
    /\ <>(RunReturned /\ Len(attempts) = Len(filePaths))

\* the first of two files failed and was not tried again
C30_Witness ==
    /\ RunReturned
    /\ Len(filePaths) = 2
    /\ attempts = <<1, 2>>
    /\ failed = {1}

====
